---- MODULE Spec2Model ----
(***************************************************************************)
(* A model of gosss, an S3-like object store on the local filesystem:      *)
(* the storage engine (internal/storage), the HTTP handlers                *)
(* (internal/api/handlers), the auth filter (internal/middleware) and the  *)
(* router (internal/api/router.go).                                        *)
(*                                                                         *)
(* Strings are sequences of one-character strings.  A path is a sequence   *)
(* of segments (each a string) below the process's working directory, as   *)
(* filepath.Join returns it after cleaning.  The filesystem is a map from  *)
(* paths to directories and files; a file that is renamed over or removed  *)
(* while a handler holds it open stays with that handler as it was.        *)
(***************************************************************************)
EXTENDS Integers, Sequences, FiniteSets, TLC

(***************************************************************************)
(* Strings                                                                 *)
(***************************************************************************)

\* strings.HasPrefix
HasPrefix(s, p) ==
    /\ Len(p) <= Len(s)
    /\ SubSeq(s, 1, Len(p)) = p

\* strings.HasSuffix
HasSuffix(s, p) ==
    /\ Len(p) <= Len(s)
    /\ SubSeq(s, Len(s) - Len(p) + 1, Len(s)) = p

\* strings.Contains
Contains(s, p) ==
    \E i \in 1..(Len(s) - Len(p) + 1) : SubSeq(s, i, i + Len(p) - 1) = p

\* the position of the first occurrence of the one-character string c in s,
\* 0 when there is none (strings.Index)
IndexOf(s, c) ==
    IF \E i \in 1..Len(s) : s[i] = c
    THEN CHOOSE i \in 1..Len(s) : s[i] = c /\ \A j \in 1..(i - 1) : s[j] # c
    ELSE 0

\* strings.Split(s, c) for a one-character separator c
RECURSIVE Split(_, _)
Split(s, c) ==
    LET i == IndexOf(s, c)
    IN  IF i = 0 THEN <<s>>
        ELSE <<SubSeq(s, 1, i - 1)>> \o Split(SubSeq(s, i + 1, Len(s)), c)

(***************************************************************************)
(* Paths: filepath.Join and filepath.Dir                                   *)
(***************************************************************************)

Slash == "/"
Dot == <<".">>
DotDot == <<".", ".">>

\* filepath.Clean on a relative path given as its "/"-separated elements:
\* empty and "." elements are dropped, ".." removes the element before it
\* and is kept at the front when there is none.
RECURSIVE CleanSegs(_, _)
CleanSegs(todo, done) ==
    IF todo = <<>> THEN done
    ELSE LET h == Head(todo)
             t == Tail(todo)
         IN  IF h = <<>> \/ h = Dot THEN CleanSegs(t, done)
             ELSE IF h = DotDot
                  THEN IF done # <<>> /\ done[Len(done)] # DotDot
                       THEN CleanSegs(t, SubSeq(done, 1, Len(done) - 1))
                       ELSE CleanSegs(t, Append(done, h))
                  ELSE CleanSegs(t, Append(done, h))

\* ls.basePath: the storage root, config.StoragePath with its default "./data"
basePath == <<".", "/", "d", "a", "t", "a">>

\* filepath.Join(ls.basePath, bucket, key): the elements joined by "/" and
\* cleaned
JoinPath(bucket, key) ==
    CleanSegs(Split(basePath, Slash) \o Split(bucket, Slash) \o Split(key, Slash), <<>>)

\* filepath.Join(ls.basePath, name)
BucketPath(bucket) ==
    CleanSegs(Split(basePath, Slash) \o Split(bucket, Slash), <<>>)

\* filepath.Dir of a cleaned path
Dir(path) ==
    IF path = <<>> THEN <<>> ELSE SubSeq(path, 1, Len(path) - 1)

\* objectPath + ".metadata"
MetadataSuffix == <<".", "m", "e", "t", "a", "d", "a", "t", "a">>

MetadataPath(objectPath) ==
    IF objectPath = <<>> THEN <<MetadataSuffix>>
    ELSE [objectPath EXCEPT ![Len(objectPath)] = @ \o MetadataSuffix]

\* strings.HasSuffix(path, ".metadata") on a path
PathHasSuffix(path, suffix) ==
    /\ path # <<>>
    /\ HasSuffix(path[Len(path)], suffix)

\* whether path a is path b or lies below it
IsUnder(a, b) ==
    /\ Len(b) <= Len(a)
    /\ SubSeq(a, 1, Len(b)) = b

(***************************************************************************)
(* File contents and object metadata                                       *)
(***************************************************************************)

\* A request body is a sequence of bytes.  A byte that is no valid UTF-8
\* (0xFF) and the replacement character U+FFFD are the two characters the
\* JSON encoder treats specially.
BadByte == "\\xff"
ReplacementChar == "\\ufffd"

\* crypto/md5: the hash state is the bytes written so far and the digest is
\* taken as collision-free, so hex(MD5(bytes)) is rendered one hex digit a byte.
HexDigits == <<"0", "1", "2", "3", "4", "5", "6", "7", "8", "9">>

\* a digest that forgets what was written before the chunk
MD5WriteLastChunk(h, chunk) ==
    chunk

MD5Write(h, chunk) ==
    h \o chunk

HexMD5(h) ==
    [i \in 1..Len(h) |-> HexDigits[h[i] + 1]]

\* `"` + hex.EncodeToString(hash.Sum(nil)) + `"`
Quote == "\""

ETagOf(h) ==
    <<Quote>> \o HexMD5(h) \o <<Quote>>

\* model.ObjectMetadata
ObjectMetadata(key, size, lastModified, etag, contentType) ==
    [Key |-> key, Size |-> size, LastModified |-> lastModified,
     ETag |-> etag, ContentType |-> contentType]

NoMetadata == ObjectMetadata(<<>>, 0, 0, <<>>, <<>>)

\* encoding/json writes a string with every invalid UTF-8 byte replaced by
\* U+FFFD; numbers, the RFC 3339 time and every other character are written
\* so that decoding gives them back.
JSONString(s) ==
    [i \in 1..Len(s) |-> IF s[i] = BadByte THEN ReplacementChar ELSE s[i]]

\* json.NewEncoder(f).Encode(metadata) followed by
\* json.NewDecoder(f).Decode(&metadata): what a reader of the document gets
JSONEncode(m) ==
    ObjectMetadata(JSONString(m.Key), m.Size, m.LastModified,
                   JSONString(m.ETag), JSONString(m.ContentType))

\* The bytes of a file: a request body as it was streamed, or a metadata
\* document (no request body of the model is a well-formed metadata document)
RawContent(bytes) ==
    [kind |-> "raw", bytes |-> bytes, meta |-> NoMetadata]

JSONContent(m) ==
    [kind |-> "json", bytes |-> <<>>, meta |-> JSONEncode(m)]

(***************************************************************************)
(* The filesystem                                                          *)
(***************************************************************************)

EmptyMap == [x \in {} |-> 0]

MapSet(f, k, v) ==
    [x \in (DOMAIN f) \cup {k} |-> IF x = k THEN v ELSE f[x]]

MapDel(f, k) ==
    [x \in (DOMAIN f) \ {k} |-> f[x]]

\* A directory entry: a directory, or a file with the bytes of its inode
DirEntry == [kind |-> "dir", content |-> RawContent(<<>>)]

FileEntry(content) == [kind |-> "file", content |-> content]

\* the filesystem below the working directory: path -> entry
EmptyDisk == EmptyMap

\* the working directory itself always exists
Exists(d, path) ==
    path = <<>> \/ path \in DOMAIN d

IsDir(d, path) ==
    path = <<>> \/ (path \in DOMAIN d /\ d[path].kind = "dir")

IsFile(d, path) ==
    path \in DOMAIN d /\ d[path].kind = "file"

\* the entries directly inside a directory (os.ReadDir)
Children(d, path) ==
    {q \in DOMAIN d : Len(q) = Len(path) + 1 /\ IsUnder(q, path)}

\* the bytes of the file at path
FileContent(d, path) ==
    d[path].content

Prefixes(path) ==
    {SubSeq(path, 1, n) : n \in 1..Len(path)}

\* os.MkdirAll(path, 0755) fails when an element of the path is a file
MkdirAllFails(d, path) ==
    \E q \in Prefixes(path) : IsFile(d, q)

MkdirAll(d, path) ==
    [q \in (DOMAIN d) \cup Prefixes(path) |->
        IF q \in DOMAIN d THEN d[q] ELSE DirEntry]

\* os.CreateTemp(dir, pattern) creates an empty file under a name not in use;
\* the same call on a name in use (os.Create) empties the file that is there
CreateTemp(d, path) ==
    MapSet(d, path, FileEntry(RawContent(<<>>)))

\* a write through an open descriptor changes the bytes of the file in place
WriteFile(d, path, content) ==
    MapSet(d, path, FileEntry(content))

\* rename(2) of a file: fails when the source is missing, the target is a
\* directory or the target's directory is missing
RenameFails(d, src, dst) ==
    \/ ~IsFile(d, src)
    \/ IsDir(d, dst)
    \/ ~IsDir(d, Dir(dst))

\* a rename that leaves a target that exists as it is
RenameKeepsTarget(d, src, dst) ==
    IF Exists(d, dst) THEN MapDel(d, src) ELSE MapDel(MapSet(d, dst, d[src]), src)

\* ... and otherwise the target names the source's file from one moment to
\* the next
Rename(d, src, dst) ==
    IF src = dst THEN d ELSE MapDel(MapSet(d, dst, d[src]), src)

\* os.Remove: unlinks a file or removes an empty directory
RemoveFails(d, path) ==
    \/ path \notin DOMAIN d
    \/ (d[path].kind = "dir" /\ Children(d, path) # {})

Remove(d, path) ==
    IF RemoveFails(d, path) THEN d ELSE MapDel(d, path)

\* An open descriptor after a rename or a remove took the filesystem from d
\* to d2: when the name it was opened under no longer names its file, the
\* descriptor keeps the file as it was (the inode lives on until it is closed).
KeepOpen(handle, d, d2) ==
    IF handle.open /\ ~handle.unlinked
            /\ (handle.path \notin DOMAIN d2 \/ d2[handle.path] # d[handle.path])
    THEN [handle EXCEPT !.unlinked = TRUE, !.content = d[handle.path].content]
    ELSE handle

\* the bytes an open descriptor reads
HandleContent(handle, d) ==
    IF handle.unlinked THEN handle.content ELSE d[handle.path].content

NoHandle == [open |-> FALSE, path |-> <<>>, unlinked |-> FALSE, content |-> RawContent(<<>>)]

OpenFile(path) == [NoHandle EXCEPT !.open = TRUE, !.path = path]

(***************************************************************************)
(* The validator (internal/api/validator.go)                               *)
(***************************************************************************)

LowerChars ==
    {"a", "b", "c", "d", "e", "f", "g", "h", "i", "j", "k", "l", "m",
     "n", "o", "p", "q", "r", "s", "t", "u", "v", "w", "x", "y", "z"}

UpperChars ==
    {"A", "B", "C", "D", "E", "F", "G", "H", "I", "J", "K", "L", "M",
     "N", "O", "P", "Q", "R", "S", "T", "U", "V", "W", "X", "Y", "Z"}

DigitChars == {"0", "1", "2", "3", "4", "5", "6", "7", "8", "9"}

\* the value of a decimal digit
DigitVal(c) ==
    IndexOf(HexDigits, c) - 1

AllIn(s, chars) ==
    \A i \in 1..Len(s) : s[i] \in chars

\* one dotted-decimal field of an IPv4 address: 1 to 3 digits, no leading
\* zero, at most 255
IsIPv4Field(f) ==
    /\ Len(f) \in 1..3
    /\ AllIn(f, DigitChars)
    /\ (Len(f) > 1 => f[1] # "0")
    /\ (Len(f) = 3 =>
            DigitVal(f[1]) * 100 + DigitVal(f[2]) * 10 + DigitVal(f[3]) <= 255)

\* an address parser that knows no dotted-decimal form
ParseIPv6Only(name) == FALSE

\* net.ParseIP(name) != nil.  An IPv6 literal needs a ':', which the
\* character rule has already excluded where this is called.
ParseIP(name) ==
    LET fields == Split(name, ".")
    IN  /\ Len(fields) = 4
        /\ \A i \in 1..4 : IsIPv4Field(fields[i])

\* The pattern of validator.go:46,
\*   ^[a-zA-Z0-9]([a-zA-Z0-9-]*[a-zA-Z0-9])*(\.[a-zA-Z0-9]([a-zA-Z0-9-]*[a-zA-Z0-9])*)*$
\* as the automaton the regexp package runs: "start" wants the first
\* [a-zA-Z0-9] of a label, "end" has just read a closing [a-zA-Z0-9] (the
\* only place the text may end or a "." may follow), "mid" is inside
\* [a-zA-Z0-9-]* and still owes the closing character.
DNSPatternStep(q, c) ==
    LET alnum == LowerChars \cup UpperChars \cup DigitChars
    IN  CASE q = "start" -> IF c \in alnum THEN {"end"} ELSE {}
          [] q = "end" -> (IF c \in alnum THEN {"end"} ELSE {})
                            \cup (IF c \in alnum \cup {"-"} THEN {"mid"} ELSE {})
                            \cup (IF c = "." THEN {"start"} ELSE {})
          [] q = "mid" -> (IF c \in alnum \cup {"-"} THEN {"mid"} ELSE {})
                            \cup (IF c \in alnum THEN {"end"} ELSE {})

\* the pairs <<q, r>> such that reading s takes the automaton from q to r,
\* found by halves
RECURSIVE DNSPatternMoves(_)
DNSPatternMoves(s) ==
    LET states == {"start", "end", "mid"}
        half == Len(s) \div 2
    IN  IF s = <<>> THEN {<<q, q>> : q \in states}
        ELSE IF Len(s) = 1
        THEN UNION {{<<q, r>> : r \in DNSPatternStep(q, s[1])} : q \in states}
        ELSE LET first == DNSPatternMoves(SubSeq(s, 1, half))
                 second == DNSPatternMoves(SubSeq(s, half + 1, Len(s)))
             IN  {<<q, r>> \in states \X states :
                    \E m \in states : <<q, m>> \in first /\ <<m, r>> \in second}

\* re.MatchString(name)
MatchDNSPattern(name) ==
    <<"start", "end">> \in DNSPatternMoves(name)

\* the message isValidBucketName returns, "" when the name is valid
BucketNameProblem(name) ==
    IF Len(name) < 3 \/ Len(name) > 63
        THEN "Bucket name must be between 3 and 63 characters"
    ELSE IF ~AllIn(name, LowerChars \cup DigitChars \cup {".", "-"})
        THEN "Bucket name can only contain lowercase letters, numbers, hyphens, and periods"
    ELSE IF name[1] \notin LowerChars \cup DigitChars
            \/ name[Len(name)] \notin LowerChars \cup DigitChars
        THEN "Bucket name must start and end with a letter or number"
    ELSE IF Contains(name, <<".", ".">>)
        THEN "Periods (.) cannot be adjacent to each other"
    ELSE IF Contains(name, <<"-", "-">>) \/ HasPrefix(name, <<"-">>)
            \/ HasSuffix(name, <<"-">>)
        THEN "Hyphens (-) cannot be adjacent to each other or at the beginning or end"
    ELSE IF ParseIP(name)
        THEN "Bucket name cannot be an IP address"
    ELSE IF ~MatchDNSPattern(name)
        THEN "Bucket name must be a valid DNS-compliant name"
    ELSE ""

\* a validator that lets every bucket name through
AnyBucketName(name) == TRUE

isValidBucketName(name) ==
    BucketNameProblem(name) = ""

\* the characters of '!' (0x21) to '_' (0x5F) other than letters and digits
PunctChars ==
    {"!", "\"", "#", "$", "%", "&", "'", "(", ")", "*", "+", ",", "-", ".",
     "/", ":", ";", "<", "=", ">", "?", "@", "[", "\\", "]", "^", "_"}

\* the class [a-zA-Z0-9!-_.*'()/] of safePattern, in which !-_ is the range
\* from '!' to '_'
SafeChars ==
    LowerChars \cup UpperChars \cup DigitChars \cup PunctChars

NUL == "\\x00"
LF == "\n"
CR == "\r"

MaxKeyLen == 1024

\* the message isValidObjectKey returns, "" when the key is valid
ObjectKeyProblem(key) ==
    IF Len(key) = 0
        THEN "key cannot be empty"
    ELSE IF Len(key) > MaxKeyLen
        THEN "key length cannot exceed 1024 bytes"
    ELSE IF \E i \in 1..Len(key) : key[i] \in {NUL, LF, CR}
        THEN "key contains invalid control characters"
    ELSE IF HasPrefix(key, <<".">>)
        THEN "key cannot start with ."
    ELSE IF HasPrefix(key, <<"-">>)
        THEN "key cannot start with -"
    ELSE IF HasPrefix(key, <<"_">>)
        THEN "key cannot start with _"
    ELSE IF Contains(key, <<"/", "/">>)
        THEN "key cannot contain //"
    ELSE IF Contains(key, <<"\\">>)
        THEN "key cannot contain \\"
    ELSE IF HasSuffix(key, <<"/">>)
        THEN "key cannot end with forward slash"
    ELSE IF ~AllIn(key, SafeChars)
        THEN "key contains invalid characters"
    ELSE ""

isValidObjectKey(key) ==
    ObjectKeyProblem(key) = ""

(***************************************************************************)
(* State                                                                   *)
(***************************************************************************)

VARIABLES
    disk,     \* the filesystem below the working directory
    mu,       \* ls.mu: the process holding the write lock, 0 when it is free
    sem,      \* len(semaphore): the slots of the admission gate in use
    waiting,  \* uploads that hold a slot and have not yet got hold of ls.mu
    now,      \* the wall clock, in seconds
    procs,    \* the request handlers: what each is doing, what it answered
    lastPut,  \* history: per (bucket, key) the body and metadata of the last
              \* PutObject that returned success, until the key is written again
    log       \* the lines of the process log that print a value of the
              \* environment (the other lines are literals of the program,
              \* the auth filter's being the messages it answers with, or
              \* repeat the request's method, path, bucket and key)

vars == <<disk, mu, sem, waiting, now, procs, lastPut, log>>

\* handler.go: the constants of the admission gate
MaxConcurrent == 100
RequestTimeout == 30

\* http status codes
StatusOK == 200
StatusNoContent == 204
StatusBadRequest == 400
StatusUnauthorized == 401
StatusForbidden == 403
StatusNotFound == 404
StatusConflict == 409
StatusTooManyRequests == 429
StatusInternalServerError == 500

\* the handlers the model follows one by one
NumProcs == 2
Procs == 1..NumProcs

\* the data file and the sidecar of an object as they are on disk
NoFile == [exists |-> FALSE, content |-> RawContent(<<>>)]

FileAt(d, path) ==
    IF IsFile(d, path) THEN [exists |-> TRUE, content |-> d[path].content] ELSE NoFile

ObjectFiles(d, bucket, key) ==
    [data |-> FileAt(d, JoinPath(bucket, key)),
     sidecar |-> FileAt(d, MetadataPath(JoinPath(bucket, key)))]

NoFiles == [data |-> NoFile, sidecar |-> NoFile]

\* A handler that is not serving a request; after a request it keeps what the
\* request was and what was answered until it takes the next one.
\*   body, endless, contentType: the request body and Content-Type of an upload
\*   deadline: the deadline of the upload's context; expired: history, whether
\*     it passed while the engine was copying the body
\*   pos, hash, written: io.Copy's position, the MD5 state, the bytes written
\*   before: history, the object's files when Engine.PutObject was entered
\*   meta, err: what the engine returned; status: the HTTP status sent
\*   file: the open data file of a download; out: the bytes sent so far
\*   attempt, slept: the round of DeleteBucket's retry loop, the seconds slept
\*   contents: the entries of a listing
\*   hadObject: history, whether the bucket of a DeleteBucket held an object
\*     when the request came in
\*   expiration, signature: the query parameters of a presigned download;
\*     at: history, the second the handler read the clock for it
\* strconv.Itoa of a status code: its decimal digits
RECURSIVE Itoa(_)
Itoa(n) ==
    IF n < 10
    THEN <<HexDigits[n + 1]>>
    ELSE Itoa(n \div 10) \o <<HexDigits[(n % 10) + 1]>>

\* the document SendGossError writes: an XML element Error with the children
\* Code, Message and Resource (the message and the resource are the caller's
\* texts; the handlers' messages are kept in the field err)
GosssError(code) ==
    [encoding |-> "xml", XMLName |-> "Error",
     fields |-> {"Code", "Message", "Resource"}, Code |-> Itoa(code)]

ApplicationXML == <<"application/xml">>
ApplicationJSON == <<"application/json">>

\* w.Header().Set("Content-Type", ...): headers set after the status line
\* was written are not sent
SetContentType(pr, contentType) ==
    IF pr.status = 0 THEN contentType ELSE pr.header

IdleProc ==
    [pc |-> "idle", op |-> "none", bucket |-> <<>>, key |-> <<>>,
     body |-> <<>>, endless |-> FALSE, contentType |-> <<>>,
     deadline |-> 0, expired |-> FALSE,
     pos |-> 0, hash |-> <<>>, written |-> 0, before |-> NoFiles,
     meta |-> NoMetadata, err |-> "", status |-> 0, file |-> NoHandle,
     out |-> RawContent(<<>>), attempt |-> 0, slept |-> 0, hadObject |-> FALSE,
     contents |-> {}, expiration |-> <<>>, signature |-> <<>>, at |-> 0,
     header |-> <<>>, errors |-> <<>>]

\* a response writer behind a gate that turns every answer into a 429
WriteHeaderTooManyRequests(status, code) == StatusTooManyRequests

\* http.ResponseWriter.WriteHeader: the first status written is the one sent
WriteHeader(status, code) ==
    IF status = 0 THEN code ELSE status

\* SendGossError(w, code, message, resource)
SendGossError(pr, code) ==
    [pr EXCEPT !.header = SetContentType(pr, ApplicationXML),
               !.status = WriteHeader(pr.status, code),
               !.errors = Append(pr.errors, GosssError(code))]

\* a read lock that does not wait for the writer
RLockUnguarded(m) == TRUE

\* ls.mu.RLock(): a reader gets in when no writer holds the lock
RLock(m) == m = 0

\* every handler's open descriptor after the filesystem went from d to d2
KeepAllOpen(ps, d, d2) ==
    [q \in Procs |-> [ps[q] EXCEPT !.file = KeepOpen(ps[q].file, d, d2)]]

(***************************************************************************)
(* Engine.PutObject (internal/storage/object.go)                           *)
(***************************************************************************)

\* the names os.CreateTemp gives the two temporary files
TmpName == <<"t", "m", "p", "-", "1">>
TmpMetadataName == <<"t", "m", "p", "-", "m", "e", "t", "a", "d", "a", "t", "a", "-", "1">>

ObjectPath(pr) == JoinPath(pr.bucket, pr.key)

\* tempPath: the temporary data file, in the directory of the object
TempPath(pr) == Dir(ObjectPath(pr)) \o <<TmpName>>

\* metadataTempPath
MetadataTempPath(pr) == Dir(MetadataPath(ObjectPath(pr))) \o <<TmpMetadataName>>

\* what the upload leaves behind in the handler's record when the engine
\* returns
PutObjectReturned(pr, err) ==
    [pr EXCEPT !.pc = "put_respond", !.err = err,
               !.meta = IF err = "" THEN @ ELSE NoMetadata]

\* a return of the engine without the deferred os.Remove calls
PutObjectReturnKeepsTemps(p, d, err, removeTemp, removeMetadataTemp) ==
    /\ procs' = KeepAllOpen([procs EXCEPT ![p] = PutObjectReturned(procs[p], err)],
                            disk, d)
    /\ disk' = d
    /\ mu' = 0

\* the engine returns err to the handler: the deferred os.Remove calls run
\* (the one of the metadata temp first, when it was registered), then
\* ls.mu.Unlock()
PutObjectReturn(p, d, err, removeTemp, removeMetadataTemp) ==
    LET d1 == IF removeMetadataTemp THEN Remove(d, MetadataTempPath(procs[p])) ELSE d
        d2 == IF removeTemp THEN Remove(d1, TempPath(procs[p])) ELSE d1
    IN  /\ procs' = KeepAllOpen([procs EXCEPT ![p] = PutObjectReturned(procs[p], err)],
                                disk, d2)
        /\ disk' = d2
        /\ mu' = 0

\* ls.mu.Lock(); os.MkdirAll(filepath.Dir(objectPath)); os.CreateTemp(dir, "tmp-")
PutObjectLock(p, fault) ==
    /\ procs[p].pc = "put_lock"
    /\ mu = 0
    /\ LET pr == [procs[p] EXCEPT !.before = ObjectFiles(disk, procs[p].bucket, procs[p].key)]
           dir == Dir(ObjectPath(pr))
       IN  /\ lastPut' = MapDel(lastPut, <<pr.bucket, pr.key>>)
           /\ IF fault = "mkdir" \/ MkdirAllFails(disk, dir)
              THEN /\ procs' = [procs EXCEPT ![p] =
                            PutObjectReturned(pr, "failed to create directories")]
                   /\ disk' = disk
                   /\ mu' = 0
              ELSE IF fault = "createtemp"
              THEN /\ procs' = [procs EXCEPT ![p] =
                            PutObjectReturned(pr, "failed to create temporary file")]
                   /\ disk' = MkdirAll(disk, dir)
                   /\ mu' = 0
              ELSE /\ disk' = CreateTemp(MkdirAll(disk, dir), TempPath(pr))
                   /\ mu' = p
                   /\ procs' = [procs EXCEPT ![p] = [pr EXCEPT !.pc = "put_copy"]]
    /\ UNCHANGED <<sem, waiting, now, log>>

\* the longest prefix of a body that never ends which the model follows
MaxWritten == 2

\* whether io.Copy's next Read returns data rather than io.EOF; a body that
\* never ends keeps sending the byte 0
MoreBody(pr) ==
    pr.endless \/ pr.pos < Len(pr.body)

NextChunk(pr) ==
    IF pr.pos < Len(pr.body) THEN <<pr.body[pr.pos + 1]>> ELSE <<0>>

\* context.WithTimeout(r.Context(), RequestTimeout): whether ctx.Done() is closed
CtxDone(pr) ==
    now >= pr.deadline

\* One round of io.Copy(io.MultiWriter(tempFile, hash), data): a chunk read
\* from the request body goes to the temporary file and to the hash, or the
\* read or the write fails.  The context is not consulted.
PutObjectCopy(p, fault) ==
    /\ procs[p].pc = "put_copy"
    /\ MoreBody(procs[p])
    /\ (procs[p].endless => procs[p].written < MaxWritten)
    /\ IF fault = "copy"
       THEN PutObjectReturn(p, disk, "failed to write data", TRUE, FALSE)
       ELSE LET chunk == NextChunk(procs[p])
                old == FileContent(disk, TempPath(procs[p]))
            IN  /\ disk' = WriteFile(disk, TempPath(procs[p]),
                                     RawContent(old.bytes \o chunk))
                /\ procs' = [procs EXCEPT ![p].pos = @ + 1,
                                          ![p].hash = MD5Write(@, chunk),
                                          ![p].written = @ + Len(chunk),
                                          ![p].expired = @ \/ CtxDone(procs[p])]
                /\ mu' = mu
    /\ UNCHANGED <<sem, waiting, now, lastPut, log>>

\* io.Copy has returned at io.EOF: the metadata is built and encoded into
\* the second temporary file
PutObjectMetadata(p, fault) ==
    /\ procs[p].pc = "put_copy"
    /\ ~MoreBody(procs[p])
    /\ LET pr == procs[p]
           metadata == ObjectMetadata(pr.key, pr.written, now, ETagOf(pr.hash),
                                      pr.contentType)
       IN  IF fault = "createtemp"
           THEN PutObjectReturn(p, disk, "failed to create temporary metadata file",
                                TRUE, FALSE)
           ELSE IF fault = "encode"
           THEN PutObjectReturn(p, CreateTemp(disk, MetadataTempPath(pr)),
                                "failed to write metadata", TRUE, TRUE)
           ELSE /\ disk' = WriteFile(disk, MetadataTempPath(pr), JSONContent(metadata))
                /\ procs' = [procs EXCEPT ![p].pc = "put_rename",
                                          ![p].meta = metadata]
                /\ mu' = mu
    /\ UNCHANGED <<sem, waiting, now, lastPut, log>>

\* os.Rename(tempPath, objectPath)
PutObjectRenameData(p, fault) ==
    /\ procs[p].pc = "put_rename"
    /\ LET pr == procs[p]
           d == Rename(disk, TempPath(pr), ObjectPath(pr))
       IN  IF fault = "rename" \/ RenameFails(disk, TempPath(pr), ObjectPath(pr))
           THEN PutObjectReturn(p, disk, "failed to move object file", TRUE, TRUE)
           ELSE /\ disk' = d
                /\ procs' = KeepAllOpen([procs EXCEPT ![p].pc = "put_rename_metadata"],
                                        disk, d)
                /\ mu' = mu
    /\ UNCHANGED <<sem, waiting, now, lastPut, log>>

\* os.Rename(metadataTempPath, metadataPath); on failure os.Remove(objectPath)
PutObjectRenameMetadata(p, fault) ==
    /\ procs[p].pc = "put_rename_metadata"
    /\ LET pr == procs[p]
           metadataPath == MetadataPath(ObjectPath(pr))
       IN  IF fault = "rename" \/ RenameFails(disk, MetadataTempPath(pr), metadataPath)
           THEN /\ PutObjectReturn(p, Remove(disk, ObjectPath(pr)),
                                   "failed to move metadata file", TRUE, TRUE)
                /\ lastPut' = lastPut
           ELSE /\ PutObjectReturn(p, Rename(disk, MetadataTempPath(pr), metadataPath),
                                   "", TRUE, TRUE)
                /\ lastPut' = MapSet(lastPut, <<pr.bucket, pr.key>>,
                                     [body |-> pr.body, meta |-> pr.meta])
    /\ UNCHANGED <<sem, waiting, now, log>>

(***************************************************************************)
(* Handler.PutObject (internal/api/handlers/put_object.go)                 *)
(***************************************************************************)

\* a gate that lets a request in while as many slots are held as there are
TryAcquireAtCapacity(n) == n <= MaxConcurrent

\* select { case semaphore <- struct{}{}: ... default: ... }: whether a slot
\* is free
TryAcquire(n) ==
    n < MaxConcurrent

\* A new request: the handler's record with the request in it
Request(op, bucket, key) ==
    [IdleProc EXCEPT !.op = op, !.bucket = bucket, !.key = key]

\* what a handler keeps of a request it has answered
Answered(pr) ==
    [Request(pr.op, pr.bucket, pr.key) EXCEPT
        !.status = pr.status, !.err = pr.err, !.meta = pr.meta, !.out = pr.out,
        !.attempt = pr.attempt, !.slept = pr.slept, !.hadObject = pr.hadObject,
        !.contents = pr.contents, !.expiration = pr.expiration,
        !.signature = pr.signature, !.at = pr.at,
        !.header = pr.header, !.errors = pr.errors]

\* The handler up to the call of h.store.PutObject: the two validations,
\* then the admission gate
PutObject(p, bucket, key, body, endless, contentType) ==
    /\ procs[p].pc = "idle"
    /\ LET req == Request("PutObject", bucket, key)
       IN  IF ~isValidBucketName(bucket) \/ ~isValidObjectKey(key)
           THEN /\ procs' = [procs EXCEPT ![p] = SendGossError(req, StatusBadRequest)]
                /\ sem' = sem
           ELSE IF TryAcquire(sem)
           THEN /\ procs' = [procs EXCEPT ![p] =
                        [req EXCEPT !.pc = "put_lock", !.body = body,
                                    !.endless = endless, !.contentType = contentType,
                                    !.deadline = now + RequestTimeout]]
                /\ sem' = sem + 1
           ELSE /\ procs' = [procs EXCEPT ![p] = SendGossError(req, StatusTooManyRequests)]
                /\ sem' = sem
    /\ UNCHANGED <<disk, mu, waiting, now, lastPut, log>>

\* a release placed at the end of the handler, which the returns on the
\* error paths do not pass
ReleaseAtEnd(n, err) ==
    IF err = "" THEN n - 1 ELSE n

\* defer func() { <-semaphore }(): runs when the handler returns, with or
\* without an error
ReleaseSlot(n, err) ==
    n - 1

\* h.store.PutObject has returned: the response is written (the metadata as
\* JSON, or the error) and the deferred <-semaphore gives the slot back
PutObjectRespond(p) ==
    /\ procs[p].pc = "put_respond"
    /\ procs' = [procs EXCEPT ![p] =
            Answered(IF procs[p].err # ""
                     THEN SendGossError(procs[p], StatusInternalServerError)
                     ELSE [procs[p] EXCEPT !.status = WriteHeader(@, StatusOK),
                                           !.meta = JSONEncode(@)])]
    /\ sem' = ReleaseSlot(sem, procs[p].err)
    /\ UNCHANGED <<disk, mu, waiting, now, lastPut, log>>

\* h.store.PutObject has returned the metadata and json.NewEncoder(w).Encode
\* fails (the client is gone): the first write has sent the status 200, the
\* error document follows it, and the deferred <-semaphore gives the slot back
PutObjectEncodeFails(p) ==
    /\ procs[p].pc = "put_respond"
    /\ procs[p].err = ""
    /\ procs' = [procs EXCEPT ![p] =
            Answered([SendGossError([procs[p] EXCEPT !.status = WriteHeader(@, StatusOK)],
                                    StatusInternalServerError)
                        EXCEPT !.err = "Failed to encode metadata"])]
    /\ sem' = ReleaseSlot(sem, "Failed to encode metadata")
    /\ UNCHANGED <<disk, mu, waiting, now, lastPut, log>>

\* The filesystem after an Engine.PutObject that met no error, from
\* ls.mu.Lock() to the return: the directories, the data file and the
\* sidecar at their final paths, the temporary files gone
StoredObject(d, bucket, key, body, contentType, t) ==
    LET objectPath == JoinPath(bucket, key)
        metadata == ObjectMetadata(key, Len(body), t, ETagOf(body), contentType)
    IN  MapSet(MapSet(MkdirAll(d, Dir(objectPath)),
                      objectPath, FileEntry(RawContent(body))),
               MetadataPath(objectPath), FileEntry(JSONContent(metadata)))

\* An upload of a client the model does not follow step by step comes in
\* with a valid bucket and key: it takes a slot of the gate if one is free
\* (else it is answered 429 and leaves no trace) and goes on to ls.mu.Lock()
PutObjectArrive ==
    /\ TryAcquire(sem)
    /\ sem' = sem + 1
    /\ waiting' = waiting + 1
    /\ UNCHANGED <<disk, mu, now, procs, lastPut, log>>

\* Such an upload gets the write lock, stores its object or fails at the
\* first step of the engine, and gives its slot back
PutObjectLeave(bucket, key, body, contentType, fault) ==
    /\ waiting > 0
    /\ mu = 0
    /\ isValidBucketName(bucket) /\ isValidObjectKey(key)
    /\ LET objectPath == JoinPath(bucket, key)
           d == IF \/ fault = "mkdir"
                   \/ MkdirAllFails(disk, Dir(objectPath))
                   \/ IsDir(disk, objectPath)
                   \/ IsDir(disk, MetadataPath(objectPath))
                THEN disk
                ELSE StoredObject(disk, bucket, key, body, contentType, now)
       IN  /\ disk' = d
           /\ procs' = KeepAllOpen(procs, disk, d)
           /\ lastPut' = IF d = disk THEN MapDel(lastPut, <<bucket, key>>)
                          ELSE MapSet(lastPut, <<bucket, key>>,
                                      [body |-> body,
                                       meta |-> ObjectMetadata(key, Len(body), now,
                                                               ETagOf(body), contentType)])
    /\ waiting' = waiting - 1
    /\ sem' = sem - 1
    /\ UNCHANGED <<mu, now, log>>

(***************************************************************************)
(* The engine's other operations (internal/storage)                        *)
(***************************************************************************)

\* ls.readMetadata(path): open the file and decode the JSON document in it
ReadMetadata(d, path) ==
    IF IsFile(d, path) /\ FileContent(d, path).kind = "json"
    THEN [err |-> "", meta |-> FileContent(d, path).meta]
    ELSE [err |-> "failed to read metadata", meta |-> NoMetadata]

\* Engine.GetObject: the sidecar is read first, then the data file is opened
\* (os.Open also opens a directory, from which nothing can be read: dir)
EngineGetObject(d, bucket, key) ==
    LET objectPath == JoinPath(bucket, key)
        md == ReadMetadata(d, MetadataPath(objectPath))
    IN  IF md.err # ""
        THEN [err |-> "failed to read metadata", meta |-> NoMetadata,
              file |-> NoHandle, dir |-> FALSE]
        ELSE IF ~Exists(d, objectPath)
        THEN [err |-> "failed to open file", meta |-> NoMetadata,
              file |-> NoHandle, dir |-> FALSE]
        ELSE [err |-> "", meta |-> md.meta,
              file |-> IF IsFile(d, objectPath) THEN OpenFile(objectPath) ELSE NoHandle,
              dir |-> IsDir(d, objectPath)]

\* Engine.HeadObject
EngineHeadObject(d, bucket, key) ==
    ReadMetadata(d, MetadataPath(JoinPath(bucket, key)))

\* Engine.DeleteObject: os.Remove(objectPath), then os.Remove(metadataPath)
\* with its error dropped
EngineDeleteObject(d, bucket, key) ==
    LET objectPath == JoinPath(bucket, key)
    IN  IF RemoveFails(d, objectPath)
        THEN [err |-> "failed to delete object", disk |-> d]
        ELSE [err |-> "", disk |-> Remove(Remove(d, objectPath), MetadataPath(objectPath))]

\* Engine.CreateBucket
EngineCreateBucket(d, name) ==
    IF MkdirAllFails(d, BucketPath(name))
    THEN [err |-> "failed to create bucket", disk |-> d]
    ELSE [err |-> "", disk |-> MkdirAll(d, BucketPath(name))]

\* a deletion by os.RemoveAll, which takes the bucket with all it holds
RemoveAllOfBucket(d, name) ==
    [err |-> "",
     disk |-> [q \in {r \in DOMAIN d : ~IsUnder(r, BucketPath(name))} |-> d[q]]]

\* Engine.DeleteBucket: os.ReadDir, len(entries) > 0, os.Remove
EngineDeleteBucket(d, name) ==
    LET bucketPath == BucketPath(name)
    IN  IF ~IsDir(d, bucketPath)
        THEN [err |-> "failed to read bucket", disk |-> d]
        ELSE IF Children(d, bucketPath) # {}
        THEN [err |-> "bucket not empty", disk |-> d]
        ELSE IF RemoveFails(d, bucketPath)
        THEN [err |-> "failed to delete bucket", disk |-> d]
        ELSE [err |-> "", disk |-> Remove(d, bucketPath)]

\* Engine.BucketExists: os.Stat(bucketPath)
BucketExists(d, name) ==
    Exists(d, BucketPath(name))

\* The error filepath.Walk(bucketPath, fn) returns for HasObject's fn: the
\* lstat error of a missing root, "found object" at the first entry that is
\* no directory and whose path does not end in ".metadata", else none.
HasObjectWalk(d, bucketPath) ==
    IF ~Exists(d, bucketPath) THEN "lstat: no such file or directory"
    ELSE IF \E q \in DOMAIN d :
                /\ IsUnder(q, bucketPath)
                /\ d[q].kind # "dir"
                /\ ~PathHasSuffix(q, MetadataSuffix)
    THEN "found object"
    ELSE ""

\* whether the tree of the bucket holds a file that is no sidecar
ContainsObject(d, bucket) ==
    HasObjectWalk(d, BucketPath(bucket)) = "found object"

\* Engine.HasObject, with the tests on the walk's error as the code makes them
HasObject(d, bucket) ==
    LET err == HasObjectWalk(d, BucketPath(bucket))
    IN  IF err # "" /\ err # "found object"
        THEN IF err = "found object"
             THEN [found |-> TRUE, err |-> ""]
             ELSE [found |-> FALSE, err |-> "failed to check if object exists"]
        ELSE [found |-> FALSE, err |-> ""]

(***************************************************************************)
(* The other handlers (internal/api/handlers)                              *)
(***************************************************************************)

\* Handler.GetObject up to the first byte: Engine.GetObject under the read
\* lock, then the response headers from the metadata
GetObject(p, bucket, key) ==
    /\ procs[p].pc = "idle"
    /\ RLock(mu)
    /\ LET req == Request("GetObject", bucket, key)
           got == EngineGetObject(disk, bucket, key)
       IN  procs' = [procs EXCEPT ![p] =
                IF got.err # ""
                THEN [SendGossError(req, StatusNotFound) EXCEPT !.err = got.err]
                ELSE IF got.dir
                THEN [SendGossError(req, StatusInternalServerError) EXCEPT
                            !.meta = got.meta]
                ELSE [req EXCEPT !.pc = "get_copy", !.meta = got.meta,
                                 !.file = got.file]]
    /\ UNCHANGED <<disk, mu, sem, waiting, now, lastPut, log>>

\* One round of io.Copy(w, obj): the next chunk of the open file goes to the
\* response; at io.EOF the deferred obj.Close() runs
GetObjectCopy(p) ==
    /\ procs[p].pc = "get_copy"
    /\ LET pr == procs[p]
           content == HandleContent(pr.file, disk)
       IN  procs' = [procs EXCEPT ![p] =
                IF content.kind = "raw" /\ pr.pos < Len(content.bytes)
                THEN [pr EXCEPT !.pos = @ + 1,
                                !.out = RawContent(@.bytes \o <<content.bytes[pr.pos + 1]>>)]
                ELSE IF content.kind = "json" /\ pr.pos = 0
                THEN [pr EXCEPT !.pos = 1, !.out = content]
                ELSE Answered([pr EXCEPT !.status = WriteHeader(@, StatusOK)])]
    /\ UNCHANGED <<disk, mu, sem, waiting, now, lastPut, log>>

\* Handler.HeadObject
HeadObject(p, bucket, key) ==
    /\ procs[p].pc = "idle"
    /\ RLock(mu)
    /\ LET req == Request("HeadObject", bucket, key)
           got == EngineHeadObject(disk, bucket, key)
       IN  procs' = [procs EXCEPT ![p] =
                IF got.err # ""
                THEN [SendGossError(req, StatusNotFound) EXCEPT !.err = got.err]
                ELSE [req EXCEPT !.meta = got.meta, !.status = StatusOK]]
    /\ UNCHANGED <<disk, mu, sem, waiting, now, lastPut, log>>

\* Handler.DeleteObject
DeleteObject(p, bucket, key) ==
    /\ procs[p].pc = "idle"
    /\ mu = 0
    /\ LET req == Request("DeleteObject", bucket, key)
           got == EngineDeleteObject(disk, bucket, key)
       IN  /\ procs' = KeepAllOpen([procs EXCEPT ![p] =
                  IF got.err # ""
                  THEN [SendGossError(req, StatusInternalServerError) EXCEPT !.err = got.err]
                  ELSE [req EXCEPT !.status = StatusNoContent]], disk, got.disk)
           /\ disk' = got.disk
    /\ lastPut' = MapDel(lastPut, <<bucket, key>>)
    /\ UNCHANGED <<mu, sem, waiting, now, log>>

\* Handler.HeadBucket
HeadBucket(p, bucket) ==
    /\ procs[p].pc = "idle"
    /\ RLock(mu)
    /\ procs' = [procs EXCEPT ![p] =
            IF BucketExists(disk, bucket)
            THEN [Request("HeadBucket", bucket, <<>>) EXCEPT !.status = StatusOK]
            ELSE SendGossError(Request("HeadBucket", bucket, <<>>), StatusNotFound)]
    /\ UNCHANGED <<disk, mu, sem, waiting, now, lastPut, log>>

\* Handler.CreateBucket up to Engine.CreateBucket: the bucket must not exist,
\* then its name is validated
CreateBucket(p, bucket) ==
    /\ procs[p].pc = "idle"
    /\ RLock(mu)
    /\ LET req == Request("CreateBucket", bucket, <<>>)
       IN  procs' = [procs EXCEPT ![p] =
                IF BucketExists(disk, bucket)
                THEN SendGossError(req, StatusConflict)
                ELSE IF ~isValidBucketName(bucket)
                THEN SendGossError(req, StatusBadRequest)
                ELSE [req EXCEPT !.pc = "create_bucket"]]
    /\ UNCHANGED <<disk, mu, sem, waiting, now, lastPut, log>>

\* Engine.CreateBucket under the write lock, and the response
CreateBucketLock(p) ==
    /\ procs[p].pc = "create_bucket"
    /\ mu = 0
    /\ LET got == EngineCreateBucket(disk, procs[p].bucket)
       IN  /\ disk' = got.disk
           /\ procs' = [procs EXCEPT ![p] =
                  Answered(IF got.err # ""
                           THEN [SendGossError(procs[p], StatusInternalServerError)
                                    EXCEPT !.err = got.err]
                           ELSE [procs[p] EXCEPT !.status = WriteHeader(@, StatusOK)])]
    /\ UNCHANGED <<mu, sem, waiting, now, lastPut, log>>

\* Handler.DeleteBucket up to HasObject: the bucket must exist
DeleteBucket(p, bucket) ==
    /\ procs[p].pc = "idle"
    /\ RLock(mu)
    /\ LET req == [Request("DeleteBucket", bucket, <<>>) EXCEPT
                        !.hadObject = ContainsObject(disk, bucket)]
       IN  procs' = [procs EXCEPT ![p] =
                IF ~BucketExists(disk, bucket)
                THEN SendGossError(req, StatusNotFound)
                ELSE [req EXCEPT !.pc = "delete_bucket_has"]]
    /\ UNCHANGED <<disk, mu, sem, waiting, now, lastPut, log>>

\* h.store.HasObject: an error ends the request with 500; a bucket with an
\* object gets 409 written, after which the handler goes on to the deletion
DeleteBucketHasObject(p) ==
    /\ procs[p].pc = "delete_bucket_has"
    /\ RLock(mu)
    /\ LET got == HasObject(disk, procs[p].bucket)
       IN  procs' = [procs EXCEPT ![p] =
                IF got.err # ""
                THEN Answered([SendGossError(procs[p], StatusInternalServerError)
                                    EXCEPT !.err = got.err])
                ELSE [(IF got.found THEN SendGossError(procs[p], StatusConflict)
                       ELSE procs[p])
                      EXCEPT !.pc = "delete_bucket_try"]]
    /\ UNCHANGED <<disk, mu, sem, waiting, now, lastPut, log>>

\* the attempts of the retry loop
DeleteBucketAttempts == 3

\* One round of the retry loop: Engine.DeleteBucket under the write lock;
\* success ends the loop with 204, a failure sleeps i+1 seconds, and the
\* last failure ends the request with 500
DeleteBucketTry(p) ==
    /\ procs[p].pc = "delete_bucket_try"
    /\ mu = 0
    /\ LET pr == procs[p]
           got == EngineDeleteBucket(disk, pr.bucket)
           i == pr.attempt
       IN  /\ disk' = got.disk
           /\ procs' = KeepAllOpen([procs EXCEPT ![p] =
                  IF got.err = ""
                  THEN Answered([pr EXCEPT !.attempt = i + 1, !.err = "",
                                           !.status = WriteHeader(@, StatusNoContent)])
                  ELSE IF i + 1 < DeleteBucketAttempts
                  THEN [pr EXCEPT !.attempt = i + 1, !.err = got.err,
                                  !.slept = @ + (i + 1)]
                  ELSE Answered([SendGossError(pr, StatusInternalServerError)
                            EXCEPT !.attempt = i + 1, !.err = got.err,
                                   !.slept = @ + (i + 1)])], disk, got.disk)
    /\ UNCHANGED <<mu, sem, waiting, now, lastPut, log>>

\* time passes
Tick ==
    /\ now' = now + 1
    /\ UNCHANGED <<disk, mu, sem, waiting, procs, lastPut, log>>

\* Engine.ListObjects: one entry for each file of the tree that is no
\* sidecar, whose path below the bucket starts with prefix and whose sidecar
\* can be read
RECURSIVE JoinSegs(_)
JoinSegs(segs) ==
    IF segs = <<>> THEN <<>>
    ELSE IF Len(segs) = 1 THEN segs[1]
    ELSE segs[1] \o <<Slash>> \o JoinSegs(Tail(segs))

\* a listing that gives up at the first data file whose sidecar cannot be
\* read
ListObjectsStrict(d, bucket, prefix) ==
    LET bucketPath == BucketPath(bucket)
        walked == {q \in DOMAIN d :
                    /\ IsUnder(q, bucketPath)
                    /\ d[q].kind # "dir"
                    /\ ~PathHasSuffix(q, MetadataSuffix)
                    /\ HasPrefix(JoinSegs(SubSeq(q, Len(bucketPath) + 1, Len(q))), prefix)}
    IN  IF ~Exists(d, bucketPath) \/ \E q \in walked : ReadMetadata(d, MetadataPath(q)).err # ""
        THEN [err |-> "failed to list objects", objects |-> {}]
        ELSE [err |-> "", objects |-> {ReadMetadata(d, MetadataPath(q)).meta : q \in walked}]

EngineListObjects(d, bucket, prefix) ==
    LET bucketPath == BucketPath(bucket)
        listed == {q \in DOMAIN d :
                    /\ IsUnder(q, bucketPath)
                    /\ d[q].kind # "dir"
                    /\ ~PathHasSuffix(q, MetadataSuffix)
                    /\ HasPrefix(JoinSegs(SubSeq(q, Len(bucketPath) + 1, Len(q))), prefix)
                    /\ ReadMetadata(d, MetadataPath(q)).err = ""}
    IN  IF ~Exists(d, bucketPath)
        THEN [err |-> "failed to list objects", objects |-> {}]
        ELSE [err |-> "", objects |-> {ReadMetadata(d, MetadataPath(q)).meta : q \in listed}]

\* Handler.ListObjects: the listing without the content types
ListObjects(p, bucket, prefix) ==
    /\ procs[p].pc = "idle"
    /\ RLock(mu)
    /\ LET req == Request("ListObjects", bucket, <<>>)
           got == EngineListObjects(disk, bucket, prefix)
       IN  procs' = [procs EXCEPT ![p] =
                IF got.err # ""
                THEN [SendGossError(req, StatusInternalServerError) EXCEPT !.err = got.err]
                ELSE [req EXCEPT !.status = StatusOK,
                                 !.contents = {[Key |-> o.Key, LastModified |-> o.LastModified,
                                                ETag |-> o.ETag, Size |-> o.Size] :
                                               o \in got.objects}]]
    /\ UNCHANGED <<disk, mu, sem, waiting, now, lastPut, log>>

(***************************************************************************)
(* Presigned downloads (internal/api/handlers/get_signed_object.go)        *)
(***************************************************************************)

\* config.Config: the credential the service is started with
AccessKeyID == <<"k">>
SecretKey == <<"s">>

Colon == ":"

\* hex(HMAC-SHA256(secret, message)), taken as collision-free: the digest
\* is rendered as the pair it was computed from
HMACSHA256(secret, message) ==
    <<"h">> \o secret \o <<"|">> \o message

\* getSignedUrl of the SDK: the signature parameter of the URL it builds for
\* the expiration it has computed
getSignedUrl(secretAccessKey, expiration, bucket, key) ==
    HMACSHA256(secretAccessKey, expiration \o <<Colon>> \o bucket \o <<Colon>> \o key)

\* a signature that also covers whether the object is stored
SignatureOverStored(expiration, bucket, key) ==
    HMACSHA256(SecretKey, expiration \o <<Colon>> \o bucket \o <<Colon>> \o key
                            \o (IF ObjectFiles(disk, bucket, key).data.exists
                                THEN <<Colon>> ELSE <<>>))

\* h.generateSignature(expiration, bucket, key)
generateSignature(expiration, bucket, key) ==
    HMACSHA256(SecretKey, expiration \o <<Colon>> \o bucket \o <<Colon>> \o key)

\* the value of a string of decimal digits
RECURSIVE DecimalValue(_)
DecimalValue(s) ==
    IF s = <<>> THEN 0
    ELSE 10 * DecimalValue(SubSeq(s, 1, Len(s) - 1)) + DigitVal(s[Len(s)])

\* the digits of 1<<63 - 1, the largest int64
MaxInt64Digits ==
    <<"9", "2", "2", "3", "3", "7", "2", "0", "3", "6", "8", "5", "4", "7", "7", "5",
      "8", "0", "7">>

\* a string of digits without its leading zeros
RECURSIVE StripZeros(_)
StripZeros(s) ==
    IF s # <<>> /\ s[1] = "0" THEN StripZeros(Tail(s)) ELSE s

\* whether the number written a, without leading zeros, is above the one
\* written b
DigitsAbove(a, b) ==
    \/ Len(a) > Len(b)
    \/ /\ Len(a) = Len(b)
       /\ \E i \in 1..Len(a) :
            /\ DigitVal(a[i]) > DigitVal(b[i])
            /\ \A j \in 1..(i - 1) : a[j] = b[j]

\* strconv.ParseUint(s, 10, 63): decimal digits without a sign
ParseUint(s) ==
    IF s = <<>> \/ ~AllIn(s, DigitChars)
    THEN [err |-> "invalid syntax", val |-> 0]
    ELSE IF DigitsAbove(StripZeros(s), MaxInt64Digits)
    THEN [err |-> "value out of range", val |-> 0]
    ELSE [err |-> "", val |-> DecimalValue(StripZeros(s))]

\* strconv.ParseInt(s, 10, 64): an optional sign and decimal digits, the
\* value within int64 (the lowest int64 has the digits of the largest but
\* for a last 8)
ParseInt(s) ==
    LET neg == s # <<>> /\ s[1] = "-"
        digits == IF s # <<>> /\ s[1] \in {"-", "+"} THEN Tail(s) ELSE s
        limit == IF neg THEN [MaxInt64Digits EXCEPT ![Len(MaxInt64Digits)] = "8"]
                 ELSE MaxInt64Digits
    IN  IF digits = <<>> \/ ~AllIn(digits, DigitChars)
        THEN [err |-> "invalid syntax", val |-> 0]
        ELSE IF DigitsAbove(StripZeros(digits), limit)
        THEN [err |-> "value out of range", val |-> 0]
        ELSE [err |-> "", val |-> IF neg THEN 0 - DecimalValue(StripZeros(digits))
                                  ELSE DecimalValue(StripZeros(digits))]

\* an expiry check that also turns away the second of the expiration
ExpiredAtBoundary(t, exp) == t >= exp

\* time.Now().Unix() > exp
Expired(t, exp) == t > exp

\* Handler.GetSignedObject up to the first byte of the object
GetSignedObject(p, bucket, key, expiration, signature) ==
    /\ procs[p].pc = "idle"
    /\ LET req == [Request("GetSignedObject", bucket, key) EXCEPT
                        !.expiration = expiration, !.signature = signature, !.at = now]
           exp == ParseInt(expiration)
           got == EngineGetObject(disk, bucket, key)
       IN  IF expiration = <<>> \/ signature = <<>>
           THEN procs' = [procs EXCEPT ![p] = SendGossError(req, StatusBadRequest)]
           ELSE IF exp.err # ""
           THEN procs' = [procs EXCEPT ![p] = SendGossError(req, StatusBadRequest)]
           ELSE IF Expired(now, exp.val)
           THEN procs' = [procs EXCEPT ![p] =
                    [SendGossError(req, StatusForbidden) EXCEPT !.err = "URL has expired"]]
           ELSE IF signature # generateSignature(expiration, bucket, key)
           THEN procs' = [procs EXCEPT ![p] =
                    [SendGossError(req, StatusForbidden) EXCEPT !.err = "Invalid signature"]]
           ELSE /\ RLock(mu)
                /\ procs' = [procs EXCEPT ![p] =
                        IF got.err # ""
                        THEN [SendGossError(req, StatusNotFound) EXCEPT !.err = got.err]
                        ELSE IF got.dir
                        THEN [SendGossError(req, StatusInternalServerError) EXCEPT
                                    !.meta = got.meta]
                        ELSE [req EXCEPT !.pc = "get_copy", !.meta = got.meta,
                                         !.file = got.file]]
    /\ UNCHANGED <<disk, mu, sem, waiting, now, lastPut, log>>

(***************************************************************************)
(* The auth filter and the router (internal/middleware/auth.go,            *)
(* internal/api/router.go)                                                 *)
(***************************************************************************)

EqualsSign == "="

\* the configuration the service runs with (config.New)
Config == [AccessKeyID |-> AccessKeyID, SecretKey |-> SecretKey]

\* os.Getenv in the environment the service is started in: the two required
\* variables are set, STORAGE_PATH and PORT are left to their defaults
Getenv(name) ==
    CASE name = "ACCESS_KEY_ID" -> Config.AccessKeyID
      [] name = "SECRET_ACCESS_KEY" -> Config.SecretKey
      [] OTHER -> <<>>

\* log.Println(text, value): one line, the literal text and then the value
Println(text, value) ==
    [text |-> text, value |-> value]

\* the lines config.New writes to the log before it returns the configuration
NewLogged ==
    {Println("Access Key ID:", Getenv("ACCESS_KEY_ID")),
     Println("Secret Key:", Getenv("SECRET_ACCESS_KEY")),
     Println("Storage Path:", Getenv("STORAGE_PATH")),
     Println("Port:", Getenv("PORT"))}

\* The filter CreateAuthMiddleware(config) builds, on a request of the given
\* method and Authorization header: the reason it answers 401 for, "" when
\* it hands the request on
CreateAuthMiddleware(config, method, authHeader) ==
    LET parts == Split(authHeader, EqualsSign)
    IN  IF method = "OPTIONS" THEN ""
        ELSE IF authHeader = <<>> THEN "Authorization header required"
        ELSE IF Len(parts) < 2 THEN "Invalid authorization header format"
        ELSE IF parts[1] # config.AccessKeyID THEN "Invalid access key ID"
        ELSE IF parts[2] # config.SecretKey THEN "Invalid secret access key"
        ELSE ""

\* the filter of the running service
AuthProblem(method, authHeader) ==
    CreateAuthMiddleware(Config, method, authHeader)

\* the routes NewRouter registers: the presigned download outside the
\* group that uses the auth filter, everything else inside it
Routes ==
    {[method |-> "GET", route |-> "presign", handler |-> "GetSignedObject", auth |-> FALSE],
     [method |-> "PUT", route |-> "bucket", handler |-> "CreateBucket", auth |-> TRUE],
     [method |-> "DELETE", route |-> "bucket", handler |-> "DeleteBucket", auth |-> TRUE],
     [method |-> "HEAD", route |-> "bucket", handler |-> "HeadBucket", auth |-> TRUE],
     [method |-> "GET", route |-> "object", handler |-> "GetObject", auth |-> TRUE],
     [method |-> "PUT", route |-> "object", handler |-> "PutObject", auth |-> TRUE],
     [method |-> "DELETE", route |-> "object", handler |-> "DeleteObject", auth |-> TRUE],
     [method |-> "GET", route |-> "bucket", handler |-> "ListObjects", auth |-> TRUE],
     [method |-> "HEAD", route |-> "object", handler |-> "HeadObject", auth |-> TRUE]}

\* the registered route of a request
RouteOf(req) ==
    CHOOSE r \in Routes : r.method = req.method /\ r.route = req.route

\* the filter answers 401 and the request goes no further
Unauthorized(p, req) ==
    /\ procs[p].pc = "idle"
    /\ procs' = [procs EXCEPT ![p] =
            [SendGossError(Request("Unauthorized", <<>>, <<>>), StatusUnauthorized)
                EXCEPT !.err = AuthProblem(req.method, req.authHeader)]]
    /\ UNCHANGED <<disk, mu, sem, waiting, now, lastPut, log>>

\* the handler a route leads to, called with what the request carries
Handle(p, handler, req) ==
    CASE handler = "GetSignedObject" ->
            GetSignedObject(p, req.bucket, req.key, req.expiration, req.signature)
      [] handler = "CreateBucket" -> CreateBucket(p, req.bucket)
      [] handler = "DeleteBucket" -> DeleteBucket(p, req.bucket)
      [] handler = "HeadBucket" -> HeadBucket(p, req.bucket)
      [] handler = "GetObject" -> GetObject(p, req.bucket, req.key)
      [] handler = "PutObject" ->
            PutObject(p, req.bucket, req.key, req.body, FALSE, req.contentType)
      [] handler = "DeleteObject" -> DeleteObject(p, req.bucket, req.key)
      [] handler = "ListObjects" -> ListObjects(p, req.bucket, req.prefix)
      [] handler = "HeadObject" -> HeadObject(p, req.bucket, req.key)

\* A request for a registered route comes in: the auth filter where the
\* route has it, then the handler
ServeHTTP(p, req) ==
    LET r == RouteOf(req)
    IN  IF r.auth /\ AuthProblem(req.method, req.authHeader) # ""
        THEN Unauthorized(p, req)
        ELSE Handle(p, r.handler, req)

(***************************************************************************)
(* Specifications                                                          *)
(***************************************************************************)

Init ==
    /\ disk = EmptyDisk
    /\ mu = 0
    /\ sem = 0
    /\ waiting = 0
    /\ now = 0
    /\ procs = [p \in Procs |-> IdleProc]
    /\ lastPut = EmptyMap
    /\ log = NewLogged

\* the last second of the clock
MaxNow == 31

KeyA == <<"a">>
KeyAMetadata == <<"a", ".", "m", "e", "t", "a", "d", "a", "t", "a">>
KeyDX == <<"d", "/", "x">>
KeyUnderscore == <<"_">>
Bucket1 == <<"b", "k", "1">>
BucketShort == <<"b">>
PlainType == <<"t">>
BadType == <<BadByte>>

\* I/O errors that do not follow from the state of the filesystem
NoFault == ""

\* The engine driven by one client, one request at a time, with I/O errors
StoreBuckets == {Bucket1}
StoreKeys == {KeyA, KeyAMetadata, KeyDX}
StoreUploads == {[body |-> <<1>>, contentType |-> PlainType],
                 [body |-> <<2>>, contentType |-> BadType]}

NextStore ==
    \/ \E b \in StoreBuckets \cup {BucketShort}, k \in StoreKeys \cup {KeyUnderscore},
          u \in StoreUploads :
            PutObject(1, b, k, u.body, FALSE, u.contentType)
    \/ \E f \in {NoFault, "mkdir", "createtemp"} : PutObjectLock(1, f)
    \/ \E f \in {NoFault, "copy"} : PutObjectCopy(1, f)
    \/ \E f \in {NoFault, "createtemp", "encode"} : PutObjectMetadata(1, f)
    \/ \E f \in {NoFault, "rename"} : PutObjectRenameData(1, f)
    \/ \E f \in {NoFault, "rename"} : PutObjectRenameMetadata(1, f)
    \/ PutObjectRespond(1)
    \/ \E b \in StoreBuckets, k \in StoreKeys : GetObject(1, b, k)
    \/ GetObjectCopy(1)
    \/ \E b \in StoreBuckets, k \in StoreKeys : HeadObject(1, b, k)
    \/ \E b \in StoreBuckets, k \in StoreKeys : DeleteObject(1, b, k)
    \/ \E b \in StoreBuckets : HeadBucket(1, b)
    \/ \E b \in StoreBuckets \cup {BucketShort} : CreateBucket(1, b)
    \/ CreateBucketLock(1)
    \/ \E b \in StoreBuckets : DeleteBucket(1, b)
    \/ DeleteBucketHasObject(1)
    \/ DeleteBucketTry(1)

SpecStore == Init /\ [][NextStore]_vars

(***************************************************************************)
(* Properties of the store under one client                                *)
(***************************************************************************)

\* the sidecar at objectPath + ".metadata" describes the bytes of the data file
SidecarMatches(d, bucket, key) ==
    LET files == ObjectFiles(d, bucket, key)
    IN  /\ files.sidecar.exists
        /\ files.sidecar.content.kind = "json"
        /\ files.data.content.kind = "raw"
        /\ files.sidecar.content.meta.Size = Len(files.data.content.bytes)
        /\ files.sidecar.content.meta.ETag = ETagOf(files.data.content.bytes)

\* C1 (invariant I1): whenever no PutObject is inside the engine, every
\* accepted key whose data file exists on disk has a sidecar whose Size and
\* ETag are those of the bytes in the data file.
I1DataHasMatchingSidecar ==
    mu = 0 =>
        \A b \in StoreBuckets, k \in StoreKeys :
            (isValidObjectKey(k) /\ ObjectFiles(disk, b, k).data.exists)
                => SidecarMatches(disk, b, k)

\* C2 (P3): when Engine.PutObject has returned an error, the final paths hold
\* no data file and no sidecar, or the data file and the sidecar that were
\* there when the call was made, unchanged.
P3FailedPutLeavesNoPartialPair ==
    \A p \in Procs :
        (procs[p].pc = "put_respond" /\ procs[p].err # "")
            => LET files == ObjectFiles(disk, procs[p].bucket, procs[p].key)
               IN  files = NoFiles \/ files = procs[p].before

\* C3 (round trip R1): a GetObject that follows a successful PutObject of the
\* same bucket and key, with no write to that key in between, succeeds with
\* the body of the PutObject and with the ETag the PutObject returned.
R1GetReturnsWhatWasPut ==
    \A p \in Procs :
        (/\ procs[p].pc = "idle"
         /\ procs[p].op = "GetObject"
         /\ <<procs[p].bucket, procs[p].key>> \in DOMAIN lastPut)
            => LET put == lastPut[<<procs[p].bucket, procs[p].key>>]
               IN  /\ procs[p].status = StatusOK
                   /\ procs[p].out = RawContent(put.body)
                   /\ procs[p].meta.ETag = put.meta.ETag

\* C4 (P2): a HeadObject that follows a successful PutObject of the same
\* bucket and key, with no write to that key in between, returns metadata
\* equal in every field to the metadata the PutObject returned.
P2HeadReturnsPutMetadata ==
    \A p \in Procs :
        (/\ procs[p].pc = "idle"
         /\ procs[p].op = "HeadObject"
         /\ <<procs[p].bucket, procs[p].key>> \in DOMAIN lastPut)
            => /\ procs[p].status = StatusOK
               /\ procs[p].meta = lastPut[<<procs[p].bucket, procs[p].key>>].meta

\* C6 (P4): a DELETE of an existing bucket that held an object when the
\* request came in is answered 409, and the bucket still holds an object.
P4DeleteNonEmptyBucketConflict ==
    \A p \in Procs :
        (/\ procs[p].pc = "idle"
         /\ procs[p].op = "DeleteBucket"
         /\ procs[p].hadObject)
            => /\ procs[p].status = StatusConflict
               /\ ContainsObject(disk, procs[p].bucket)

\* a file, of whatever name, somewhere in the tree of the bucket
ContainsFile(d, bucket) ==
    \E q \in DOMAIN d : IsUnder(q, BucketPath(bucket)) /\ d[q].kind = "file"

\* C7 (I2): Engine.DeleteBucket answers "bucket not empty" only if the bucket
\* holds an entry that is no directory, so a bucket whose objects have all
\* been deleted with DeleteObject can be deleted.
I2NotEmptyOnlyWithFiles ==
    \A p \in Procs :
        (/\ procs[p].op = "DeleteBucket"
         /\ procs[p].err = "bucket not empty")
            => ContainsFile(disk, procs[p].bucket)

(***************************************************************************)
(* Uploads and downloads of one key by concurrent clients                  *)
(***************************************************************************)

ConcUploads == {[body |-> <<1, 1>>, contentType |-> PlainType],
                [body |-> <<2, 2>>, contentType |-> <<"u">>]}

NextConcurrent ==
    \E p \in Procs :
        \/ \E u \in ConcUploads : PutObject(p, Bucket1, KeyA, u.body, FALSE, u.contentType)
        \/ PutObjectLock(p, NoFault)
        \/ PutObjectCopy(p, NoFault)
        \/ PutObjectMetadata(p, NoFault)
        \/ PutObjectRenameData(p, NoFault)
        \/ \E f \in {NoFault, "rename"} : PutObjectRenameMetadata(p, f)
        \/ PutObjectRespond(p)
        \/ GetObject(p, Bucket1, KeyA)
        \/ GetObjectCopy(p)

SpecConcurrent == Init /\ [][NextConcurrent]_vars

IsPrefix(s, t) ==
    Len(s) <= Len(t) /\ SubSeq(t, 1, Len(s)) = s

\* the metadata Engine.PutObject writes for upload u of key, but for the time
MetadataOfUpload(m, key, u) ==
    /\ m.Key = key
    /\ m.Size = Len(u.body)
    /\ m.ETag = ETagOf(u.body)
    /\ m.ContentType = u.contentType

\* C5 (S6): a GetObject that got past the engine has the metadata of one
\* upload, the file it holds open has the complete body of that same upload
\* whatever is written to the key meanwhile, what it has sent is a prefix of
\* that body, and when it is done it has sent that body in full.
S6GetSeesOneCompleteUpload ==
    \A p \in Procs :
        (/\ procs[p].op = "GetObject"
         /\ procs[p].pc = "get_copy" \/ (procs[p].pc = "idle" /\ procs[p].status = StatusOK))
            => \E u \in ConcUploads :
                /\ MetadataOfUpload(procs[p].meta, procs[p].key, u)
                /\ procs[p].out.kind = "raw"
                /\ IsPrefix(procs[p].out.bytes, u.body)
                /\ procs[p].pc = "get_copy"
                        => HandleContent(procs[p].file, disk) = RawContent(u.body)
                /\ procs[p].pc = "idle" => procs[p].out.bytes = u.body

\* a download that has sent the first byte of the old body while the key has
\* been overwritten with another body
S6ReaderOverlapsOverwrite ==
    \E p \in Procs :
        /\ procs[p].pc = "get_copy"
        /\ procs[p].out = RawContent(<<1>>)
        /\ procs[p].file.unlinked
        /\ IsFile(disk, JoinPath(Bucket1, KeyA))
        /\ FileContent(disk, JoinPath(Bucket1, KeyA)) = RawContent(<<2, 2>>)

(***************************************************************************)
(* The admission gate                                                      *)
(***************************************************************************)

GateUpload == [body |-> <<1>>, contentType |-> PlainType]

\* One upload followed step by step among uploads that are only counted
NextGate ==
    \/ PutObject(1, Bucket1, KeyA, GateUpload.body, FALSE, GateUpload.contentType)
    \/ PutObjectLock(1, NoFault)
    \/ \E f \in {NoFault, "copy"} : PutObjectCopy(1, f)
    \/ PutObjectMetadata(1, NoFault)
    \/ PutObjectRenameData(1, NoFault)
    \/ PutObjectRenameMetadata(1, NoFault)
    \/ PutObjectRespond(1)
    \/ PutObjectArrive
    \/ \E f \in {NoFault, "mkdir"} :
            PutObjectLeave(Bucket1, KeyA, GateUpload.body, GateUpload.contentType, f)

SpecGate == Init /\ [][NextGate]_vars

\* the handlers between the acquire and the release of a slot
InFlight ==
    waiting + Cardinality({p \in Procs : procs[p].pc \in
        {"put_lock", "put_copy", "put_rename", "put_rename_metadata", "put_respond"}})

\* a step in which handler p takes up an upload with a valid bucket and key
ArrivesValid(p) ==
    /\ procs[p].pc = "idle"
    /\ procs'[p] # procs[p]
    /\ procs'[p].op = "PutObject"
    /\ procs'[p].status # StatusBadRequest

\* C8 (B5): the slots in use are exactly the uploads between acquire and
\* release and never more than MaxConcurrent; an upload with a valid bucket
\* and key that comes in while MaxConcurrent slots are held is answered 429
\* in that very step, takes no slot, and neither the engine's lock nor the
\* filesystem is touched; one that comes in while a slot is free is let in.
B5AtMostMaxConcurrentUploads ==
    /\ [](sem = InFlight /\ sem <= MaxConcurrent)
    /\ [][\A p \in Procs :
            ArrivesValid(p) =>
                IF sem = MaxConcurrent
                THEN /\ procs'[p].status = StatusTooManyRequests
                     /\ procs'[p].pc = "idle"
                     /\ UNCHANGED <<disk, mu, sem, waiting, lastPut, log>>
                ELSE /\ procs'[p].pc = "put_lock"
                     /\ sem' = sem + 1]_vars

\* an upload turned away with 429 while all MaxConcurrent slots are held
B5RejectedAtCapacity ==
    /\ sem = MaxConcurrent
    /\ procs[1].pc = "idle"
    /\ procs[1].op = "PutObject"
    /\ procs[1].status = StatusTooManyRequests

(***************************************************************************)
(* Uploads against the clock                                               *)
(***************************************************************************)

\* a body of two chunks, and a body that never ends
TimeoutUploads == {[body |-> <<1, 2>>, endless |-> FALSE],
                   [body |-> <<>>, endless |-> TRUE]}

NextTimeout ==
    \/ \E u \in TimeoutUploads : PutObject(1, Bucket1, KeyA, u.body, u.endless, PlainType)
    \/ PutObjectLock(1, NoFault)
    \/ \E f \in {NoFault, "copy"} : PutObjectCopy(1, f)
    \/ PutObjectMetadata(1, NoFault)
    \/ PutObjectRenameData(1, NoFault)
    \/ PutObjectRenameMetadata(1, NoFault)
    \/ PutObjectRespond(1)
    \/ (now < MaxNow /\ Tick)

SpecTimeout == Init /\ [][NextTimeout]_vars

\* C9: an upload whose deadline passed while the engine was copying the body
\* does not go on to the renames, and when Engine.PutObject has returned it
\* has returned an error, the write lock is free, the temporary files are
\* gone and the data file and the sidecar are the ones from before the call.
DeadlineAbortsUpload ==
    \A p \in Procs :
        procs[p].expired =>
            /\ procs[p].pc \notin {"put_rename", "put_rename_metadata"}
            /\ procs[p].pc = "put_respond" =>
                /\ procs[p].err # ""
                /\ mu = 0
                /\ ~Exists(disk, TempPath(procs[p]))
                /\ ~Exists(disk, MetadataTempPath(procs[p]))
                /\ ObjectFiles(disk, procs[p].bucket, procs[p].key) = procs[p].before

(***************************************************************************)
(* Requests through the router                                             *)
(***************************************************************************)

\* the Authorization headers tried: none, the credential, the credential
\* with more after a second "=", a wrong secret, a wrong id, no "="
Credential == AccessKeyID \o <<EqualsSign>> \o SecretKey

AuthHeaders ==
    {<<>>, Credential, Credential \o <<EqualsSign, "x">>,
     AccessKeyID \o <<EqualsSign, "t">>, <<"j", EqualsSign>> \o SecretKey, AccessKeyID}

\* the expiration and signature parameters tried
AuthExpirations == {<<>>, <<"x">>, <<"9">>}

AuthSignatures ==
    {<<>>, <<"0">>, generateSignature(<<"9">>, Bucket1, KeyA)}

\* the bodies uploaded, the keys asked for
AuthBodies == {<<1>>, <<2>>}
AuthKeys == {KeyA, KeyDX}

\* A request for each registered route: the routes behind the filter with
\* each header, the presigned route without a header and with each pair of
\* parameters
AuthRequests ==
    {[method |-> r.method, route |-> r.route, bucket |-> Bucket1, key |-> k,
      authHeader |-> h, expiration |-> <<>>, signature |-> <<>>,
      body |-> b, contentType |-> PlainType, prefix |-> <<>>] :
        r \in {x \in Routes : x.route # "presign"}, h \in AuthHeaders,
        b \in AuthBodies, k \in AuthKeys}
    \cup
    {[method |-> r.method, route |-> r.route, bucket |-> Bucket1, key |-> k,
      authHeader |-> <<>>, expiration |-> e, signature |-> g,
      body |-> <<>>, contentType |-> <<>>, prefix |-> <<>>] :
        r \in {x \in Routes : x.route = "presign"}, e \in AuthExpirations,
        g \in AuthSignatures, k \in AuthKeys}

NextAuth ==
    \/ \E req \in AuthRequests : ServeHTTP(1, req)
    \/ PutObjectLock(1, NoFault)
    \/ PutObjectCopy(1, NoFault)
    \/ PutObjectMetadata(1, NoFault)
    \/ PutObjectRenameData(1, NoFault)
    \/ PutObjectRenameMetadata(1, NoFault)
    \/ PutObjectRespond(1)
    \/ GetObjectCopy(1)
    \/ CreateBucketLock(1)
    \/ DeleteBucketHasObject(1)
    \/ DeleteBucketTry(1)

SpecAuth == Init /\ [][NextAuth]_vars

\* C10: a request for a bucket or object route, of a method other than
\* OPTIONS, whose Authorization header is not the configured credential
\* "<id>=<secret>" is answered 401 by the filter and changes nothing in the
\* store; a request for the presigned route is never answered 401.
OnlyCredentialPassesFilter ==
    [][\A req \in AuthRequests :
            ServeHTTP(1, req) =>
                IF req.route = "presign"
                THEN procs'[1].status # StatusUnauthorized
                ELSE (req.method # "OPTIONS" /\ req.authHeader # Credential)
                        => /\ procs'[1].status = StatusUnauthorized
                           /\ procs'[1].pc = "idle"
                           /\ UNCHANGED <<disk, mu, sem, lastPut, log>>]_vars

\* the configurations compared: the running one, and one whose secret holds
\* an "="
AuthConfigs ==
    {Config, [AccessKeyID |-> AccessKeyID, SecretKey |-> SecretKey \o <<EqualsSign, "x">>]}

\* the header is "<id>=<secret>" of the configuration, cut at its first "="
SentVerbatim(config, authHeader) ==
    LET i == IndexOf(authHeader, EqualsSign)
    IN  /\ i > 0
        /\ SubSeq(authHeader, 1, i - 1) = config.AccessKeyID
        /\ SubSeq(authHeader, i + 1, Len(authHeader)) = config.SecretKey

\* C11: a request behind the filter, of a method other than OPTIONS, is let
\* through (not answered 401) if and only if the part of its Authorization
\* header before the first "=" is the configured access key id and the whole
\* remainder after that "=" is the configured secret; the same holds of the
\* filter built for a configuration whose secret contains "=".
FilterSplitsAtFirstEquals ==
    [][\A req \in AuthRequests :
            (ServeHTTP(1, req) /\ RouteOf(req).auth /\ req.method # "OPTIONS") =>
                /\ procs'[1].status # StatusUnauthorized
                        <=> SentVerbatim(Config, req.authHeader)
                /\ \A config \in AuthConfigs :
                        CreateAuthMiddleware(config, req.method, req.authHeader) = ""
                            <=> SentVerbatim(config, req.authHeader)]_vars

(***************************************************************************)
(* Presigned downloads while time passes                                   *)
(***************************************************************************)

\* the last second of the clock of the presigned downloads
PresignMaxNow == 2

\* a bucket segment that ends in what a key may begin with, a key that
\* climbs out of its bucket, and the key the two spell when joined by ":"
BucketColonX == Bucket1 \o <<Colon, "x">>
KeyUpA == DotDot \o <<Slash>> \o Bucket1 \o <<Slash>> \o KeyA
KeyXColonUpA == <<"x", Colon>> \o KeyUpA

\* the objects asked for, the expirations, and the signatures presented:
\* one that was never issued, and those the holder of the secret issued for
\* two keys of the one bucket there is
PresignTargets == {<<Bucket1, KeyA>>, <<BucketColonX, KeyUpA>>}
PresignExpirations == {<<"0">>, <<"1">>}

IssuedFor == {<<<<"1">>, Bucket1, KeyA>>, <<<<"1">>, Bucket1, KeyXColonUpA>>}

PresignSignatures ==
    {<<"0">>} \cup {generateSignature(t[1], t[2], t[3]) : t \in IssuedFor}

\* the upload that stores the object, and the presigned downloads, none of
\* which carries an Authorization header
PresignUpload ==
    [method |-> "PUT", route |-> "object", bucket |-> Bucket1, key |-> KeyA,
     authHeader |-> Credential, expiration |-> <<>>, signature |-> <<>>,
     body |-> <<1>>, contentType |-> PlainType, prefix |-> <<>>]

PresignRequests ==
    {[method |-> "GET", route |-> "presign", bucket |-> t[1], key |-> t[2],
      authHeader |-> <<>>, expiration |-> e, signature |-> g,
      body |-> <<>>, contentType |-> <<>>, prefix |-> <<>>] :
        t \in PresignTargets, e \in PresignExpirations, g \in PresignSignatures}

NextPresign ==
    \/ ServeHTTP(1, PresignUpload)
    \/ PutObjectLock(1, NoFault)
    \/ PutObjectCopy(1, NoFault)
    \/ PutObjectMetadata(1, NoFault)
    \/ PutObjectRenameData(1, NoFault)
    \/ PutObjectRenameMetadata(1, NoFault)
    \/ PutObjectRespond(1)
    \/ \E p \in {1, 2}, req \in PresignRequests : ServeHTTP(p, req)
    \/ \E p \in {1, 2} : GetObjectCopy(p)
    \/ now < PresignMaxNow /\ Tick

SpecPresign == Init /\ [][NextPresign]_vars

\* a presigned download that got as far as the checks of the expiration
\* and the signature
Presigned(pr) ==
    /\ pr.op = "GetSignedObject"
    /\ pr.expiration # <<>>
    /\ pr.signature # <<>>
    /\ ParseInt(pr.expiration).err = ""

\* the download was let through to the object: it is being streamed or was
\* answered 200
Served(pr) ==
    pr.pc = "get_copy" \/ pr.status = StatusOK

\* C12: a presigned download is served only if the clock had not passed its
\* expiration and its signature is the HMAC of "<expiration>:<bucket>:<key>"
\* of that very request, with no Authorization header; and a request that
\* carries the signature issued for another (expiration, bucket, key) is
\* answered 403.
SignatureBindsRequest ==
    \A p \in Procs :
        Presigned(procs[p]) =>
            /\ Served(procs[p]) =>
                /\ procs[p].at <= ParseInt(procs[p].expiration).val
                /\ procs[p].signature =
                        generateSignature(procs[p].expiration, procs[p].bucket, procs[p].key)
            /\ (\E t \in IssuedFor :
                    /\ t # <<procs[p].expiration, procs[p].bucket, procs[p].key>>
                    /\ procs[p].signature = generateSignature(t[1], t[2], t[3]))
                => /\ procs[p].pc = "idle"
                   /\ procs[p].status = StatusForbidden

\* the presigned download carries the signature of its own fields
CorrectlySigned(pr) ==
    pr.signature = generateSignature(pr.expiration, pr.bucket, pr.key)

\* the download was turned away by the expiry check
RejectedExpired(pr) ==
    /\ pr.pc = "idle"
    /\ pr.status = StatusForbidden
    /\ pr.err = "URL has expired"

\* two handlers were given the same presigned URL
SameURL(pr, qr) ==
    /\ pr.bucket = qr.bucket
    /\ pr.key = qr.key
    /\ pr.expiration = qr.expiration
    /\ pr.signature = qr.signature

\* C13: a correctly signed presigned download whose expiration is the
\* second of the clock or a later one passes the expiry check (it is not
\* answered 403); any presigned download whose expiration is before the
\* second of the clock is answered 403 "URL has expired"; and a URL that was
\* rejected as expired at one second is rejected as expired at every later
\* second.
ExpiryBoundary ==
    \A p \in Procs :
        Presigned(procs[p]) =>
            /\ RejectedExpired(procs[p])
                    <=> procs[p].at > ParseInt(procs[p].expiration).val
            /\ (CorrectlySigned(procs[p])
                    /\ procs[p].at <= ParseInt(procs[p].expiration).val)
                => procs[p].status # StatusForbidden
            /\ \A q \in Procs :
                    (/\ Presigned(procs[q])
                     /\ SameURL(procs[p], procs[q])
                     /\ RejectedExpired(procs[p])
                     /\ procs[q].at >= procs[p].at)
                    => RejectedExpired(procs[q])

\* the object was downloaded with a correctly signed URL in the second of
\* its expiration, and the same URL was rejected as expired one second later
ExpiryBoundaryReached ==
    \E p, q \in Procs :
        /\ Presigned(procs[p]) /\ Presigned(procs[q])
        /\ SameURL(procs[p], procs[q])
        /\ CorrectlySigned(procs[p])
        /\ procs[p].at = 1
        /\ ParseInt(procs[p].expiration).val = 1
        /\ procs[p].pc = "idle"
        /\ procs[p].status = StatusOK
        /\ procs[p].out = RawContent(<<1>>)
        /\ procs[q].at = 2
        /\ RejectedExpired(procs[q])

\* C14: the 403 answers of presigned downloads cannot be told apart: an
\* answer to an expired URL and an answer to a wrong signature have the same
\* status and the same message (the resource is empty in both).
ForbiddenGivesNoHint ==
    \A p, q \in Procs :
        (/\ procs[p].op = "GetSignedObject" /\ procs[p].status = StatusForbidden
         /\ procs[q].op = "GetSignedObject" /\ procs[q].status = StatusForbidden)
        => procs[p].err = procs[q].err

(***************************************************************************)
(* The validators, on uploads to a storage root that cannot be written     *)
(***************************************************************************)

\* the longest name and key built from an alphabet
MaxNameLen == 5
MaxBuiltKeyLen == 3
MinBucketLen == 3
MaxBucketLen == 63

\* n times the character c
Rep(c, n) == [i \in 1..n |-> c]

\* every string of at most n characters of chars
RECURSIVE StringsOver(_, _)
StringsOver(chars, n) ==
    IF n = 0 THEN {<<>>}
    ELSE LET shorter == StringsOver(chars, n - 1)
         IN  shorter \cup {Append(t, c) : t \in {u \in shorter : Len(u) = n - 1}, c \in chars}

\* the bucket names tried: all short ones of a letter, a digit, "." and "-",
\* names around the two length limits, addresses and near-addresses, labels
\* with a hyphen at an end, characters outside the class
ValidatorNames ==
    StringsOver({"a", "1", ".", "-"}, MaxNameLen)
    \cup {Rep("a", MaxBucketLen - 1), Rep("a", MaxBucketLen), Rep("a", MaxBucketLen + 1),
          Rep("a", MaxBucketLen - 1) \o <<"-">>, <<"1", ".">> \o Rep("a", MaxBucketLen - 2),
          <<"1", ".", "2", ".", "3", ".", "4">>,
          <<"1", "9", "2", ".", "1", "6", "8", ".", "1", ".", "1">>,
          <<"2", "5", "6", ".", "1", ".", "1", ".", "1">>,
          <<"0", "1", ".", "1", ".", "1", ".", "1">>,
          <<"1", ".", "1", ".", "1", ".", "1", ".", "1">>,
          <<":", ":", "1">>, <<"A", "b", "c">>, <<"a", "_", "b">>, <<"a", "b", "\n">>,
          <<"a", "-", ".", "b">>, <<"a", ".", "-", "b">>, <<"a", "-", "b", ".", "c", "-", "d">>}

\* the keys tried: all short ones of a letter, "/", ".", "-", "_" and ":",
\* keys around the length limit, control characters, and characters inside
\* and outside the documented class
ValidatorKeys ==
    StringsOver({"a", "/", ".", "-", "_", ":"}, MaxBuiltKeyLen)
    \cup {Rep("a", MaxKeyLen - 1), Rep("a", MaxKeyLen), Rep("a", MaxKeyLen + 1)}
    \cup {<<"a", c, "b">> :
            c \in {NUL, LF, CR, "\\", "#", "=", "<", "+", " ", "~", "`", "!", "*", "'",
                   "(", ")", "Z", "7", "{", "@"}}

\* The first upload a handler gets, with each name and each key; the
\* storage root cannot be written: os.MkdirAll fails for every upload the
\* validators let through
NextValidator ==
    \/ \E name \in ValidatorNames :
            procs[1].op = "none" /\ PutObject(1, name, KeyA, <<1>>, FALSE, PlainType)
    \/ \E key \in ValidatorKeys :
            procs[1].op = "none" /\ PutObject(1, Bucket1, key, <<1>>, FALSE, PlainType)
    \/ PutObjectLock(1, "mkdir")
    \/ PutObjectRespond(1)

SpecValidator == Init /\ [][NextValidator]_vars

\* one label of a DNS name: it starts and ends with a letter or digit and
\* has letters, digits and hyphens in between
IsDNSLabel(l) ==
    LET alnum == LowerChars \cup UpperChars \cup DigitChars
    IN  /\ Len(l) >= 1
        /\ AllIn(l, alnum \cup {"-"})
        /\ l[1] \in alnum
        /\ l[Len(l)] \in alnum

\* a literal IPv4 address: four decimal numbers of 0 to 255, written without
\* leading zeros, separated by "."
IsIPv4Literal(name) ==
    LET fields == Split(name, ".")
    IN  /\ Len(fields) = 4
        /\ \A i \in 1..4 :
            /\ fields[i] # <<>>
            /\ Len(fields[i]) <= 3
            /\ AllIn(fields[i], DigitChars)
            /\ StripZeros(fields[i]) = fields[i] \/ fields[i] = <<"0">>
            /\ DecimalValue(fields[i]) <= 255

\* the documented rules of a bucket name (a literal IPv6 address has a ":",
\* which the rule of the characters excludes)
DocumentedBucketRules(name) ==
    LET alnum == LowerChars \cup DigitChars
    IN  /\ Len(name) >= MinBucketLen
        /\ Len(name) <= MaxBucketLen
        /\ \A i \in 1..Len(name) : name[i] \in alnum \cup {"-", "."}
        /\ name[1] \in alnum
        /\ name[Len(name)] \in alnum
        /\ ~\E i \in 1..(Len(name) - 1) : name[i] = "." /\ name[i + 1] = "."
        /\ ~\E i \in 1..(Len(name) - 1) : name[i] = "-" /\ name[i + 1] = "-"
        /\ ~IsIPv4Literal(name)
        /\ \A i \in 1..Len(Split(name, ".")) : IsDNSLabel(Split(name, ".")[i])

\* an upload whose key is valid, so that the answer tells what the validator
\* said of the bucket name: 400 when it rejected it
NameJudged(pr) ==
    pr.op = "PutObject" /\ pr.key = KeyA

NameAccepted(pr) ==
    pr.status # StatusBadRequest

\* C16: isValidBucketName accepts a name if and only if the documented
\* rules hold of it (length 3 to 63; only a-z, 0-9, "-", "."; first and last
\* character a letter or digit; no ".."; no "--"; no IPv4 or IPv6 literal;
\* labels that start and end with a letter or digit); every accepted name
\* matches the DNS pattern; names of length 2 and 64 are rejected, the valid
\* names of length 3 and 63 are accepted.
BucketNameRules ==
    \A p \in Procs :
        NameJudged(procs[p]) =>
            /\ NameAccepted(procs[p]) <=> DocumentedBucketRules(procs[p].bucket)
            /\ NameAccepted(procs[p]) => MatchDNSPattern(procs[p].bucket)
            /\ Len(procs[p].bucket) \in {MinBucketLen - 1, MaxBucketLen + 1}
                    => ~NameAccepted(procs[p])
            /\ procs[p].bucket \in {Rep("a", MinBucketLen), Rep("a", MaxBucketLen)}
                    => NameAccepted(procs[p])

\* the upload to the bucket whose name is 63 times "a" got past the
\* validators and on to the engine
LongestNameAccepted ==
    /\ NameJudged(procs[1])
    /\ procs[1].bucket = Rep("a", MaxBucketLen)
    /\ procs[1].pc = "put_respond"
    /\ procs[1].err = "failed to create directories"

\* the documented safe class: letters, digits and ! - _ . * ' ( ) /
DocumentedSafeChars ==
    LowerChars \cup UpperChars \cup DigitChars
        \cup {"!", "-", "_", ".", "*", "'", "(", ")", "/"}

\* the documented rules of an object key
DocumentedKeyRules(key) ==
    /\ Len(key) >= 1
    /\ Len(key) <= MaxKeyLen
    /\ \A i \in 1..Len(key) : key[i] \notin {NUL, LF, CR}
    /\ key[1] \notin {".", "-", "_"}
    /\ ~\E i \in 1..(Len(key) - 1) : key[i] = "/" /\ key[i + 1] = "/"
    /\ \A i \in 1..Len(key) : key[i] # "\\"
    /\ key[Len(key)] # "/"
    /\ \A i \in 1..Len(key) : key[i] \in DocumentedSafeChars

\* C17: isValidObjectKey accepts a key if and only if it is not empty, is
\* at most 1024 bytes long, has no NUL, LF or CR, does not start with ".",
\* "-" or "_", contains neither "//" nor a backslash, does not end with "/",
\* and consists of letters, digits and the characters ! - _ . * ' ( ) /
\* only; a key with ":", "#", "=", "<" or "+" is rejected.
ObjectKeyRules ==
    \A p \in Procs :
        (procs[p].op = "PutObject" /\ procs[p].bucket = Bucket1) =>
            (procs[p].status # StatusBadRequest <=> DocumentedKeyRules(procs[p].key))

(***************************************************************************)
(* Listings under one client                                               *)
(***************************************************************************)

ListPrefixes == {<<>>, <<"d">>}

\* One client uploads, deletes and lists; nothing fails but what the
\* filesystem itself refuses
NextList ==
    \/ \E k \in StoreKeys, u \in StoreUploads :
            PutObject(1, Bucket1, k, u.body, FALSE, u.contentType)
    \/ PutObjectLock(1, NoFault)
    \/ PutObjectCopy(1, NoFault)
    \/ PutObjectMetadata(1, NoFault)
    \/ PutObjectRenameData(1, NoFault)
    \/ PutObjectRenameMetadata(1, NoFault)
    \/ PutObjectRespond(1)
    \/ \E k \in StoreKeys : DeleteObject(1, Bucket1, k)
    \/ \E prefix \in ListPrefixes : ListObjects(1, Bucket1, prefix)

SpecList == Init /\ [][NextList]_vars

\* the handler has just answered 200 to an upload, 204 to a deletion
PutSucceeded(pr) ==
    pr.pc = "idle" /\ pr.op = "PutObject" /\ pr.status = StatusOK

DeleteSucceeded(pr) ==
    pr.pc = "idle" /\ pr.op = "DeleteObject" /\ pr.status = StatusNoContent

\* C18 (round trip R2): a listing of the bucket with the empty prefix that
\* follows a successful PutObject of an accepted key has exactly one entry
\* with that key, and the entry has the size and the etag PutObject
\* returned; a listing that follows a successful DeleteObject of a key has
\* no entry with that key.
R2ListAfterPutAndDelete ==
    [][ListObjects(1, Bucket1, <<>>) =>
            /\ PutSucceeded(procs[1]) =>
                /\ procs'[1].status = StatusOK
                /\ Cardinality({e \in procs'[1].contents : e.Key = procs[1].key}) = 1
                /\ \A e \in procs'[1].contents :
                        e.Key = procs[1].key =>
                            /\ e.Size = procs[1].meta.Size
                            /\ e.ETag = procs[1].meta.ETag
            /\ DeleteSucceeded(procs[1]) =>
                ~\E e \in procs'[1].contents : e.Key = procs[1].key]_vars

(***************************************************************************)
(* The life of a bucket                                                    *)
(***************************************************************************)

\* the step in which the handler answers 200 to PUT /{bucket}
CreateBucketSucceeds(p, bucket) ==
    /\ procs[p].pc = "create_bucket"
    /\ procs[p].bucket = bucket
    /\ procs'[p].pc = "idle"
    /\ procs'[p].status = StatusOK

\* the step in which the handler answers 204 to DELETE /{bucket}
DeleteBucketSucceeds(p, bucket) ==
    /\ procs[p].op = "DeleteBucket"
    /\ procs[p].pc # "idle"
    /\ procs[p].bucket = bucket
    /\ procs'[p].pc = "idle"
    /\ procs'[p].status = StatusNoContent

\* C19: a bucket exists (HEAD /{bucket} answers 200, which it does exactly
\* when BucketExists holds) only if a PUT /{bucket} succeeded for it and no
\* DELETE /{bucket} succeeded since: a bucket that does not exist comes into
\* existence only in the step that answers 200 to its PUT /{bucket} (no
\* PutObject brings it about), and it does not exist after the step that
\* answers 204 to its DELETE /{bucket}.
BucketLifecycle ==
    [][\A b \in StoreBuckets \cup {BucketShort} :
            /\ (~BucketExists(disk, b) /\ BucketExists(disk', b))
                    => CreateBucketSucceeds(1, b)
            /\ DeleteBucketSucceeds(1, b) => ~BucketExists(disk', b)]_vars

(***************************************************************************)
(* Concurrent PUT /{bucket}                                                *)
(***************************************************************************)

Bucket2 == <<"b", "k", "2">>

\* Handlers that create buckets and ask for them, in any interleaving;
\* nothing is ever deleted
NextBuckets ==
    \E p \in Procs :
        \/ \E b \in {Bucket1, Bucket2, BucketShort} : CreateBucket(p, b)
        \/ CreateBucketLock(p)
        \/ \E b \in {Bucket1, Bucket2} : HeadBucket(p, b)

SpecBuckets == Init /\ [][NextBuckets]_vars

\* the handler has answered 200 to PUT /{bucket}
Created(pr, bucket) ==
    /\ pr.pc = "idle"
    /\ pr.op = "CreateBucket"
    /\ pr.bucket = bucket
    /\ pr.status = StatusOK

\* C20: a PUT /{bucket} that finds the bucket there is answered 409 and
\* changes nothing; and of the PUT /{bucket} requests for one valid name
\* that was absent at first, in any interleaving, exactly one is answered
\* 200 and every other 409: where nothing is deleted, no two handlers have
\* been answered 200 for the same name, and every answer to a PUT /{bucket}
\* of a valid name is 200 or 409.
OneCreateBucketWins ==
    /\ [](\A b \in {Bucket1, Bucket2} :
            /\ Cardinality({p \in Procs : Created(procs[p], b)}) <= 1
            /\ \A p \in Procs :
                    (procs[p].pc = "idle" /\ procs[p].op = "CreateBucket"
                        /\ procs[p].bucket = b)
                    => procs[p].status \in {StatusOK, StatusConflict})
    /\ [][\A p \in Procs, b \in {Bucket1, Bucket2} :
            (CreateBucket(p, b) /\ BucketExists(disk, b))
                => /\ procs'[p].status = StatusConflict
                   /\ procs'[p].pc = "idle"
                   /\ disk' = disk]_vars

\* ---------------------------------------------------------------------------
\* The error encoder
\* ---------------------------------------------------------------------------

\* the members of the error document the TypeScript client decodes
DocumentedErrorFields == {"code", "message", "resource", "timestamp"}

\* C21: every error response written by SendGossError is sent with the
\* Content-Type application/json and is a JSON document with the members
\* code, message, resource and timestamp, whose code is the decimal string of
\* the HTTP status of that response
ErrorResponsesAreJSON ==
    \A p \in Procs :
        LET pr == procs[p] IN
        \A i \in 1..Len(pr.errors) :
            /\ pr.header = ApplicationJSON
            /\ pr.errors[i].encoding = "json"
            /\ pr.errors[i].fields = DocumentedErrorFields
            /\ pr.errors[i].Code = Itoa(pr.status)

\* ---------------------------------------------------------------------------
\* What the service writes about its secret
\* ---------------------------------------------------------------------------

\* C22: in every reachable state no line the service has written to its log
\* contains the shared secret (the messages of the error responses are
\* literals of the program)
SecretNeverLogged ==
    \A line \in log : ~Contains(line.value, Config.SecretKey)

\* ---------------------------------------------------------------------------
\* The metadata of an upload
\* ---------------------------------------------------------------------------

\* Engine.PutObject returns success to handler p in this step
PutObjectSucceeds(p) ==
    /\ procs[p].pc = "put_rename_metadata"
    /\ procs'[p].pc = "put_respond"
    /\ procs'[p].err = ""

\* C23: when PutObject returns success, the metadata it returns and the
\* sidecar it has just moved into place both have the size of the request
\* body (all the bytes the reader produced) and, as etag, the quoted hex
\* digest of exactly that body, as accumulated while the body was streamed
PutMetadataDescribesBody ==
    [][\A p \in Procs :
        PutObjectSucceeds(p) =>
            LET returned == procs'[p].meta
                sidecar == FileContent(disk', MetadataPath(ObjectPath(procs[p])))
            IN  /\ returned.Size = Len(procs[p].body)
                /\ returned.ETag = ETagOf(procs[p].body)
                /\ sidecar.kind = "json"
                /\ sidecar.meta.Size = returned.Size
                /\ sidecar.meta.ETag = returned.ETag]_vars

\* an upload of two bytes has succeeded and its sidecar is in place
TwoByteUploadStored ==
    \E p \in Procs :
        /\ procs[p].op = "PutObject"
        /\ procs[p].pc = "put_respond"
        /\ procs[p].err = ""
        /\ procs[p].written = 2
        /\ procs[p].meta.ETag = ETagOf(<<2, 2>>)
        /\ IsFile(disk, MetadataPath(ObjectPath(procs[p])))

\* ---------------------------------------------------------------------------
\* Two clients on one object: every operation of the engine
\* ---------------------------------------------------------------------------

EngineUpload == [body |-> <<1>>, contentType |-> PlainType]

\* the clients that send DELETE /{bucket}
BucketDeleters == {1, 2}

NextEngine ==
    \E p \in Procs :
        \/ PutObject(p, Bucket1, KeyA, EngineUpload.body, FALSE, EngineUpload.contentType)
        \/ PutObjectLock(p, NoFault)
        \/ PutObjectCopy(p, NoFault)
        \/ PutObjectMetadata(p, NoFault)
        \/ PutObjectRenameData(p, NoFault)
        \/ PutObjectRenameMetadata(p, NoFault)
        \/ PutObjectRespond(p)
        \/ GetObject(p, Bucket1, KeyA)
        \/ GetObjectCopy(p)
        \/ HeadObject(p, Bucket1, KeyA)
        \/ DeleteObject(p, Bucket1, KeyA)
        \/ ListObjects(p, Bucket1, <<>>)
        \/ HeadBucket(p, Bucket1)
        \/ CreateBucket(p, Bucket1)
        \/ CreateBucketLock(p)
        \/ (p \in BucketDeleters /\ DeleteBucket(p, Bucket1))
        \/ DeleteBucketHasObject(p)
        \/ DeleteBucketTry(p)

SpecEngine == Init /\ [][NextEngine]_vars

\* handler p is inside Engine.PutObject, past ls.mu.Lock()
InPutObject(p) ==
    procs[p].pc \in {"put_copy", "put_rename", "put_rename_metadata"}

\* handler q takes a step inside the engine: its record changes (other than
\* by its open file being kept), and the step is neither the part of
\* Handler.PutObject before and after Engine.PutObject nor the streaming of
\* a download, which runs after Engine.GetObject has returned
EngineStep(q) ==
    /\ [procs'[q] EXCEPT !.file = procs[q].file] # procs[q]
    /\ procs[q].pc \notin {"get_copy", "put_respond"}
    /\ ~(procs[q].pc = "idle" /\ procs'[q].op = "PutObject")

\* C24: the handler inside Engine.PutObject, from the creation of the
\* temporary file to the second rename, is the one holder of the write lock;
\* every step any handler takes inside the engine (CreateBucket,
\* DeleteBucket, PutObject, DeleteObject, BucketExists, HasObject, GetObject,
\* HeadObject, ListObjects) is taken while no other handler holds the lock,
\* so none is taken while another handler is between its two renames
EngineLockExcludes ==
    /\ [](\A p \in Procs : InPutObject(p) <=> mu = p)
    /\ [][\A q \in Procs :
            EngineStep(q) =>
                /\ mu \in {0, q}
                /\ \A p \in Procs \ {q} : procs[p].pc # "put_rename_metadata"]_vars

\* one upload is between its two renames while another waits for the lock
\* and the object's data file is in place without the new sidecar
WriterWaitsForWriter ==
    \E p, q \in Procs :
        /\ p # q
        /\ procs[p].pc = "put_rename_metadata"
        /\ procs[q].pc = "put_lock"
        /\ IsFile(disk, ObjectPath(procs[p]))
        /\ ~IsFile(disk, MetadataPath(ObjectPath(procs[p])))

\* ---------------------------------------------------------------------------
\* Uploads that overwrite each other
\* ---------------------------------------------------------------------------

\* C25: of the uploads of one key that have returned success, the one that
\* held the write lock last is the one whose body is the data file and whose
\* metadata is the sidecar, for as long as no other upload of the key has
\* taken the lock; data and sidecar never stem from two uploads
LastWriterWins ==
    \A bk \in DOMAIN lastPut :
        LET files == ObjectFiles(disk, bk[1], bk[2])
        IN  /\ files.data = [exists |-> TRUE,
                             content |-> RawContent(lastPut[bk].body)]
            /\ files.sidecar = [exists |-> TRUE,
                                content |-> JSONContent(lastPut[bk].meta)]

\* both handlers are back from uploads of the same key that overlapped, with
\* different bodies, and neither has answered yet
BothUploadsReturned ==
    /\ \A p \in {1, 2} :
            /\ procs[p].op = "PutObject"
            /\ procs[p].pc = "put_respond"
            /\ procs[p].err = ""
    /\ procs[1].key = procs[2].key
    /\ procs[1].body # procs[2].body
    /\ <<procs[1].bucket, procs[1].key>> \in DOMAIN lastPut

\* ---------------------------------------------------------------------------
\* What a write to one object does to the others
\* ---------------------------------------------------------------------------

\* handler p takes a step of Engine.PutObject or Engine.DeleteObject
WritesObject(p) ==
    \/ procs[p].pc \in {"put_lock", "put_copy", "put_rename", "put_rename_metadata"}
    \/ procs[p].pc = "idle" /\ procs'[p].op = "DeleteObject"

\* C26: a step of PutObject or DeleteObject on (bucket, key) leaves the data
\* file and the sidecar of every other pair (bucket2, key2) with a key the
\* validator accepts as they were, also when one key is the other followed
\* by ".metadata" or has several segments
WriteLeavesOtherObjects ==
    [][\A p \in Procs :
        WritesObject(p) =>
            \A b \in StoreBuckets, k \in StoreKeys :
                (/\ <<b, k>> # <<procs'[p].bucket, procs'[p].key>>
                 /\ isValidObjectKey(k)
                 /\ isValidObjectKey(procs'[p].key))
                    => ObjectFiles(disk', b, k) = ObjectFiles(disk, b, k)]_vars

\* ---------------------------------------------------------------------------
\* Keys with ".." elements
\* ---------------------------------------------------------------------------

\* "a/../../x", which isValidObjectKey accepts, and "../x"
KeyAUpUpX == KeyA \o <<Slash>> \o DotDot \o <<Slash>> \o DotDot \o <<Slash, "x">>
KeyUpX == DotDot \o <<Slash, "x">>
ConfineKeys == {KeyA, KeyAUpUpX, KeyUpX}

NextConfine ==
    \/ \E k \in ConfineKeys : PutObject(1, Bucket1, k, <<1>>, FALSE, PlainType)
    \/ PutObjectLock(1, NoFault)
    \/ PutObjectCopy(1, NoFault)
    \/ PutObjectMetadata(1, NoFault)
    \/ PutObjectRenameData(1, NoFault)
    \/ PutObjectRenameMetadata(1, NoFault)
    \/ PutObjectRespond(1)
    \/ \E k \in ConfineKeys : GetObject(1, Bucket1, k)
    \/ GetObjectCopy(1)
    \/ \E k \in ConfineKeys : HeadObject(1, Bucket1, k)
    \/ \E k \in ConfineKeys : DeleteObject(1, Bucket1, k)

SpecConfine == Init /\ [][NextConfine]_vars

\* the files a step creates, rewrites, renames or removes
FilesTouched ==
    {q \in DOMAIN disk \cup DOMAIN disk' :
        /\ \/ q \in DOMAIN disk /\ disk[q].kind = "file"
           \/ q \in DOMAIN disk' /\ disk'[q].kind = "file"
        /\ \/ q \notin DOMAIN disk
           \/ q \notin DOMAIN disk'
           \/ disk[q] # disk'[q]}

\* handler p gets the metadata or the open file of an object in this step
ReadsObject(p) ==
    /\ procs[p].pc = "idle"
    /\ \/ procs'[p].op = "GetObject" /\ procs'[p].pc = "get_copy"
       \/ procs'[p].op = "HeadObject" /\ procs'[p].status = StatusOK

\* C27: every file a step of PutObject or DeleteObject on (bucket, key)
\* creates, rewrites, renames or removes, and the file a GetObject or
\* HeadObject on (bucket, key) reads, lies inside the directory of the
\* bucket, whatever key the handler passes to the engine
PathsStayInBucket ==
    [][\A p \in Procs :
        /\ WritesObject(p) =>
                \A q \in FilesTouched : IsUnder(q, BucketPath(procs'[p].bucket))
        /\ ReadsObject(p) =>
                IsUnder(JoinPath(procs'[p].bucket, procs'[p].key),
                        BucketPath(procs'[p].bucket))]_vars

\* ---------------------------------------------------------------------------
\* The admission gate among all the handlers
\* ---------------------------------------------------------------------------

AdmissionExpiration == <<"1">>

\* One client that sends every kind of request, uploads with valid and with
\* invalid names among them, while other uploads come and go
NextAdmission ==
    \/ \E b \in {Bucket1, BucketShort}, k \in {KeyA, KeyUnderscore} :
            PutObject(1, b, k, GateUpload.body, FALSE, GateUpload.contentType)
    \/ PutObjectLock(1, NoFault)
    \/ \E f \in {NoFault, "copy"} : PutObjectCopy(1, f)
    \/ PutObjectMetadata(1, NoFault)
    \/ PutObjectRenameData(1, NoFault)
    \/ PutObjectRenameMetadata(1, NoFault)
    \/ PutObjectRespond(1)
    \/ PutObjectEncodeFails(1)
    \/ PutObjectArrive
    \/ PutObjectLeave(Bucket1, KeyA, GateUpload.body, GateUpload.contentType, NoFault)
    \/ CreateBucket(1, Bucket1)
    \/ CreateBucketLock(1)
    \/ DeleteBucket(1, Bucket1)
    \/ DeleteBucketHasObject(1)
    \/ DeleteBucketTry(1)
    \/ HeadBucket(1, Bucket1)
    \/ ListObjects(1, Bucket1, <<>>)
    \/ GetObject(1, Bucket1, KeyA)
    \/ GetObjectCopy(1)
    \/ HeadObject(1, Bucket1, KeyA)
    \/ DeleteObject(1, Bucket1, KeyA)
    \/ GetSignedObject(1, Bucket1, KeyA, AdmissionExpiration,
                       generateSignature(AdmissionExpiration, Bucket1, KeyA))

SpecAdmission == Init /\ [][NextAdmission]_vars

\* handler p holds a slot of the semaphore
HoldsSlot(p) ==
    procs[p].pc \in {"put_lock", "put_copy", "put_rename", "put_rename_metadata",
                     "put_respond"}

\* C28: every step in which a PutObject handler that holds a slot ends, be
\* it after the engine's success, after the engine's error or after the
\* failure to encode the response, gives the slot back; whenever no upload
\* is running the semaphore is empty
SlotReturnedOnEveryExit ==
    /\ []((waiting = 0 /\ \A p \in Procs : ~HoldsSlot(p)) => sem = 0)
    /\ [][\A p \in Procs :
            (HoldsSlot(p) /\ procs'[p].pc = "idle") => sem' = sem - 1]_vars

\* the client's upload has failed in the engine, has been answered 500, and
\* no slot is in use
SlotBackAfterFailure ==
    /\ procs[1].op = "PutObject"
    /\ procs[1].pc = "idle"
    /\ procs[1].status = StatusInternalServerError
    /\ procs[1].err = "failed to write data"
    /\ waiting = 0
    /\ sem = 0

\* handler p takes up an upload whose bucket name ("b", too short) or key
\* ("_", a forbidden first character) is invalid
ArrivesInvalid(p) ==
    /\ procs[p].pc = "idle"
    /\ procs'[p] # procs[p]
    /\ procs'[p].op = "PutObject"
    /\ procs'[p].bucket = BucketShort \/ procs'[p].key = KeyUnderscore

\* C29: an upload with an invalid bucket name or an invalid key is answered
\* 400 in the step it comes in, also while all MaxConcurrent slots are held;
\* it takes no slot, does not enter the engine (the lock stays as it is) and
\* leaves the filesystem unchanged
InvalidUploadStopsBeforeGate ==
    [][\A p \in Procs :
        ArrivesInvalid(p) =>
            /\ procs'[p].status = StatusBadRequest
            /\ procs'[p].pc = "idle"
            /\ UNCHANGED <<disk, mu, sem, waiting, lastPut>>]_vars

\* an upload to the bucket "b" answered 400 while all slots are held
InvalidRejectedAtCapacity ==
    /\ sem = MaxConcurrent
    /\ procs[1].op = "PutObject"
    /\ procs[1].bucket = BucketShort
    /\ procs[1].pc = "idle"
    /\ procs[1].status = StatusBadRequest

\* the handlers other than PutObject
UngatedHandlers ==
    {"CreateBucket", "DeleteBucket", "HeadBucket", "ListObjects", "GetObject",
     "HeadObject", "DeleteObject", "GetSignedObject"}

BackoffBefore(n) ==
    IF n <= 1 THEN 0 ELSE IF n = 2 THEN 1 ELSE 3

\* C31: a DeleteBucket handler calls Engine.DeleteBucket at most 3 times and
\* stops at the first success, which it answers 204; it has waited 1 s after
\* the first and 2 s after the second failed attempt and not after the last,
\* 3 s at most; after the third failure it answers 500; no other handler
\* repeats an engine call
DeleteBucketRetries ==
    \A p \in Procs :
        LET pr == procs[p] IN
        IF pr.op = "DeleteBucket"
        THEN /\ pr.attempt <= DeleteBucketAttempts
             /\ pr.slept <= 3
             /\ (pr.pc = "idle" /\ pr.attempt > 0) =>
                    /\ pr.slept = BackoffBefore(pr.attempt)
                    /\ pr.err = "" => pr.status = StatusNoContent
                    /\ pr.err # "" => /\ pr.attempt = DeleteBucketAttempts
                                      /\ pr.status = StatusInternalServerError
        ELSE pr.attempt = 0 /\ pr.slept = 0

\* ---------------------------------------------------------------------------
\* HasObject
\* ---------------------------------------------------------------------------

\* the entries of the bucket's tree that are objects: no directories, names
\* not ending in ".metadata"
ObjectEntries(d, bucket) ==
    {q \in DOMAIN d :
        /\ IsUnder(q, BucketPath(bucket))
        /\ d[q].kind # "dir"
        /\ ~HasSuffix(q[Len(q)], MetadataSuffix)}

\* C32: on every bucket that exists, whenever the read lock can be had,
\* Engine.HasObject returns true if and only if the tree of the bucket holds
\* an entry that is no directory and whose name does not end in ".metadata",
\* and returns false without an error exactly when it holds none
HasObjectFindsObjects ==
    \A b \in StoreBuckets :
        (RLock(mu) /\ BucketExists(disk, b)) =>
            LET got == HasObject(disk, b)
            IN  /\ got.found <=> ObjectEntries(disk, b) # {}
                /\ (~got.found /\ got.err = "") <=> ObjectEntries(disk, b) = {}

\* ---------------------------------------------------------------------------
\* Bucket deletion among uploads and deletions of objects
\* ---------------------------------------------------------------------------

\* C33: in every interleaving of DELETE /{bucket} with uploads and deletions
\* of objects in the bucket, a step that removes the bucket directory finds
\* it without any entry, and no round of the DeleteBucket handler changes
\* the data file or the sidecar of an object
BucketRemovedOnlyWhenEmpty ==
    [][/\ (IsDir(disk, BucketPath(Bucket1)) /\ ~Exists(disk', BucketPath(Bucket1)))
            => {q \in DOMAIN disk : IsUnder(q, BucketPath(Bucket1))}
                    = {BucketPath(Bucket1)}
       /\ \A p \in Procs :
            (procs[p].pc = "delete_bucket_try" /\ procs'[p].attempt # procs[p].attempt)
                => ObjectFiles(disk', Bucket1, KeyA) = ObjectFiles(disk, Bucket1, KeyA)]_vars

\* a DeleteBucket handler that found the bucket without objects has been
\* refused by the engine, because an upload that came in between has stored
\* its object, which is still there
DeletionRefusedAfterUpload ==
    \E p \in Procs :
        /\ procs[p].op = "DeleteBucket"
        /\ ~procs[p].hadObject
        /\ procs[p].attempt > 0
        /\ procs[p].err = "bucket not empty"
        /\ <<Bucket1, KeyA>> \in DOMAIN lastPut
        /\ ObjectFiles(disk, Bucket1, KeyA).data.exists

\* ---------------------------------------------------------------------------
\* Presigned downloads of one object that is uploaded and deleted meanwhile
\* ---------------------------------------------------------------------------

\* the digits of 1<<63, one above the largest int64
Int64Overflow ==
    [MaxInt64Digits EXCEPT ![Len(MaxInt64Digits)] = "8"]

\* the signature issued for the object and an expiration
Issued(expiration) == getSignedUrl(SecretKey, expiration, Bucket1, KeyA)

\* the expiration and signature parameters sent: one of the two missing; an
\* expiration that is no number, one out of range, one a second before the
\* clock starts, each signed for; the first two seconds of the clock, signed
\* for, and the second with a signature that was never issued
SignedQueries ==
    {<< <<>>, Issued(<<>>) >>, << <<"1">>, <<>> >>,
     << <<"x">>, Issued(<<"x">>) >>, <<Int64Overflow, Issued(Int64Overflow)>>,
     << <<"-", "1">>, Issued(<<"-", "1">>) >>,
     << <<"0">>, Issued(<<"0">>) >>, << <<"1">>, Issued(<<"1">>) >>,
     << <<"1">>, <<"0">> >>}

\* the clients that send presigned downloads
SignedClients == {1, 2}

NextSigned ==
    \/ PutObject(1, Bucket1, KeyA, EngineUpload.body, FALSE, EngineUpload.contentType)
    \/ PutObjectLock(1, NoFault)
    \/ PutObjectCopy(1, NoFault)
    \/ PutObjectMetadata(1, NoFault)
    \/ PutObjectRenameData(1, NoFault)
    \/ PutObjectRenameMetadata(1, NoFault)
    \/ PutObjectRespond(1)
    \/ DeleteObject(1, Bucket1, KeyA)
    \/ \E p \in SignedClients, q \in SignedQueries :
            GetSignedObject(p, Bucket1, KeyA, q[1], q[2])
    \/ \E p \in SignedClients : GetObjectCopy(p)
    \/ now < PresignMaxNow /\ Tick

SpecSigned == Init /\ [][NextSigned]_vars

\* whether s is written as a decimal number of 64 bits with a sign: an
\* optional sign, then digits, the whole between -(1<<63) and (1<<63) - 1
IsInt64Decimal(s) ==
    LET digits == IF s # <<>> /\ s[1] \in {"-", "+"} THEN Tail(s) ELSE s
    IN  /\ digits # <<>>
        /\ AllIn(digits, DigitChars)
        /\ ~DigitsAbove(StripZeros(digits),
                IF s[1] = "-" THEN Int64Overflow ELSE MaxInt64Digits)

\* the number s is written as
Int64Of(s) ==
    IF s[1] = "-" THEN 0 - DecimalValue(StripZeros(Tail(s)))
    ELSE IF s[1] = "+" THEN DecimalValue(StripZeros(Tail(s)))
    ELSE DecimalValue(StripZeros(s))

\* an answer that tells nothing of the object: it is final, has the status
\* code, and carries no metadata, no open file and no byte of a body
RejectedWith(pr, code) ==
    /\ pr.pc = "idle"
    /\ pr.status = code
    /\ pr.meta = NoMetadata
    /\ pr.file = NoHandle
    /\ pr.out = RawContent(<<>>)

PassedVerification(pr) ==
    /\ pr.op = "GetSignedObject"
    /\ pr.status \notin {StatusBadRequest, StatusForbidden}

KeyD == <<"d">>

\* the keys uploaded, deleted and read: one is the name of another's sidecar,
\* one the name of another's directory
DeleteKeys == {KeyA, KeyAMetadata, KeyDX, KeyD}

NextDelete ==
    \/ \E k \in DeleteKeys :
            PutObject(1, Bucket1, k, EngineUpload.body, FALSE, EngineUpload.contentType)
    \/ PutObjectLock(1, NoFault)
    \/ PutObjectCopy(1, NoFault)
    \/ PutObjectMetadata(1, NoFault)
    \/ PutObjectRenameData(1, NoFault)
    \/ \E f \in {NoFault, "rename"} : PutObjectRenameMetadata(1, f)
    \/ PutObjectRespond(1)
    \/ \E k \in DeleteKeys : DeleteObject(1, Bucket1, k)
    \/ \E k \in DeleteKeys : HeadObject(1, Bucket1, k)
    \/ \E k \in DeleteKeys : GetObject(1, Bucket1, k)
    \/ GetObjectCopy(1)

SpecDelete == Init /\ [][NextDelete]_vars

\* handler p answers a request of one of ops in this step
Answers(p, ops) ==
    /\ procs[p].pc = "idle"
    /\ procs'[p].op \in ops
    /\ (procs'[p] # procs[p] \/ disk' # disk)

\* C36: DeleteObject on a key without a data file answers 500 and leaves the
\* disk as it was, an existing sidecar included; on a data file without a
\* sidecar it answers 204; after a DeleteObject that answered 204 neither
\* the data file nor the sidecar of the key exists, and HeadObject and
\* GetObject on a key with neither answer 404
DeleteObjectOutcomes ==
    [][\A p \in Procs :
        LET r == procs'[p]
            objectPath == JoinPath(r.bucket, r.key)
            metadataPath == MetadataPath(objectPath)
        IN  /\ Answers(p, {"DeleteObject"}) =>
                /\ ~IsFile(disk, objectPath) =>
                        /\ r.status = StatusInternalServerError
                        /\ disk' = disk
                /\ (IsFile(disk, objectPath) /\ ~Exists(disk, metadataPath)) =>
                        r.status = StatusNoContent
                /\ r.status = StatusNoContent =>
                        /\ ~Exists(disk', objectPath)
                        /\ ~Exists(disk', metadataPath)
            /\ Answers(p, {"HeadObject", "GetObject"}) =>
                ((~Exists(disk, objectPath) /\ ~Exists(disk, metadataPath))
                    => r.status = StatusNotFound)]_vars

\* ---------------------------------------------------------------------------
\* What a listing returns, file by file
\* ---------------------------------------------------------------------------

\* the path of a file relative to the root of its bucket
RelPath(bucket, path) ==
    JoinSegs(SubSeq(path, Len(BucketPath(bucket)) + 1, Len(path)))

\* the files of the bucket tree that are no directories, whose names do not
\* end in ".metadata", whose relative paths start with prefix
DataFiles(d, bucket, prefix) ==
    {q \in DOMAIN d : /\ IsUnder(q, BucketPath(bucket))
                      /\ IsFile(d, q)
                      /\ ~HasSuffix(q[Len(q)], MetadataSuffix)
                      /\ HasPrefix(RelPath(bucket, q), prefix)}

\* the sidecar next to a data file is there and holds metadata
SidecarReadable(d, q) ==
    /\ IsFile(d, MetadataPath(q))
    /\ d[MetadataPath(q)].content.kind = "json"

\* C37: whenever the read lock can be had, ListObjects(bucket, prefix) on a
\* bucket that exists succeeds and returns one entry for each data file
\* (no directory, name not ending in ".metadata", relative path starting
\* with prefix) whose sidecar can be read, that entry being what the sidecar
\* holds and carrying the file's relative path as its key; it returns
\* nothing else, no entry for a sidecar, and a data file without a readable
\* sidecar costs neither the listing nor the other entries
ListObjectsReturnsDataFiles ==
    \A prefix \in ListPrefixes :
        (RLock(mu) /\ BucketExists(disk, Bucket1)) =>
            LET got == EngineListObjects(disk, Bucket1, prefix)
                files == {q \in DataFiles(disk, Bucket1, prefix) : SidecarReadable(disk, q)}
            IN  /\ got.err = ""
                /\ Cardinality(got.objects) = Cardinality(files)
                /\ \A q \in files :
                        \E o \in got.objects :
                            /\ o = disk[MetadataPath(q)].content.meta
                            /\ o.Key = RelPath(Bucket1, q)
                /\ \A o \in got.objects :
                        /\ ~HasSuffix(o.Key, MetadataSuffix)
                        /\ \E q \in files : o.Key = RelPath(Bucket1, q)

\* a listing of the whole bucket was answered with the one entry of d/x
\* while the data file of a lay next to a sidecar that cannot be read
ListingSkipsUnreadable ==
    /\ IsFile(disk, JoinPath(Bucket1, KeyA))
    /\ ~SidecarReadable(disk, JoinPath(Bucket1, KeyA))
    /\ SidecarReadable(disk, JoinPath(Bucket1, KeyDX))
    /\ \E p \in Procs :
        /\ procs[p].op = "ListObjects"
        /\ procs[p].status = StatusOK
        /\ {o.Key : o \in procs[p].contents} = {KeyDX}

\* ---------------------------------------------------------------------------
\* Downloads of keys of which only the data file or only the sidecar exists
\* ---------------------------------------------------------------------------

\* the answer 404 of a download, with no file left open
NotFoundNothingOpen(pr) ==
    /\ pr.pc = "idle"
    /\ pr.status = StatusNotFound
    /\ pr.file = NoHandle

\* C38: GetObject answers 404 and leaves no file open when the data file
\* exists and the sidecar does not, and when the sidecar exists (and can be
\* read) and the data file does not; it goes on to stream only when both
\* files exist
GetObjectNeedsBothFiles ==
    [][\A p \in Procs :
        Answers(p, {"GetObject"}) =>
            LET r == procs'[p]
                objectPath == JoinPath(r.bucket, r.key)
            IN  /\ (IsFile(disk, objectPath) /\ ~Exists(disk, MetadataPath(objectPath)))
                    => NotFoundNothingOpen(r)
                /\ (SidecarReadable(disk, objectPath) /\ ~IsFile(disk, objectPath))
                    => NotFoundNothingOpen(r)
                /\ r.pc = "get_copy"
                    => (IsFile(disk, objectPath) /\ IsFile(disk, MetadataPath(objectPath)))]_vars

\* ---------------------------------------------------------------------------
\* Temporary files of uploads that fail, next to listings and deletions of
\* the bucket
\* ---------------------------------------------------------------------------

\* the clients of the bucket
TempClients == {1, 2}

NextTemp ==
    \E p \in TempClients :
        \/ PutObject(p, Bucket1, KeyA, EngineUpload.body, FALSE, EngineUpload.contentType)
        \/ \E f \in {NoFault, "mkdir", "createtemp"} : PutObjectLock(p, f)
        \/ \E f \in {NoFault, "copy"} : PutObjectCopy(p, f)
        \/ \E f \in {NoFault, "createtemp", "encode"} : PutObjectMetadata(p, f)
        \/ \E f \in {NoFault, "rename"} : PutObjectRenameData(p, f)
        \/ \E f \in {NoFault, "rename"} : PutObjectRenameMetadata(p, f)
        \/ PutObjectRespond(p)
        \/ DeleteObject(p, Bucket1, KeyA)
        \/ ListObjects(p, Bucket1, <<>>)
        \/ DeleteBucket(p, Bucket1)
        \/ DeleteBucketHasObject(p)
        \/ DeleteBucketTry(p)

SpecTemp == Init /\ [][NextTemp]_vars

\* the pattern of os.CreateTemp(dir, "tmp-") and (dir, "tmp-metadata-")
TmpPattern == <<"t", "m", "p", "-">>

\* the files with a temporary name
TempFiles(d) ==
    {q \in DOMAIN d : HasPrefix(q[Len(q)], TmpPattern)}

\* handler p takes a step inside HasObject, ListObjects or Engine.DeleteBucket
WalksBucket(p) ==
    \/ /\ procs[p].pc = "idle"
       /\ procs'[p].op = "ListObjects"
       /\ procs'[p] # procs[p]
    \/ /\ procs[p].pc \in {"delete_bucket_has", "delete_bucket_try"}
       /\ [procs'[p] EXCEPT !.file = procs[p].file] # procs[p]

\* C39: while no PutObject holds the write lock no file named tmp-* or
\* tmp-metadata-* is on disk; the step in which Engine.PutObject returns,
\* with or without an error, leaves none behind; and HasObject, ListObjects
\* and Engine.DeleteBucket take their steps only with the lock free, on a
\* disk without temporary files
NoTemporaryFileOutlivesPutObject ==
    /\ [](mu = 0 => TempFiles(disk) = {})
    /\ [][\A p \in Procs :
            /\ (procs[p].pc \in {"put_lock", "put_copy", "put_rename", "put_rename_metadata"}
                    /\ procs'[p].pc = "put_respond")
                => (mu' = 0 /\ TempFiles(disk') = {})
            /\ WalksBucket(p) => (mu = 0 /\ TempFiles(disk) = {})]_vars

\* an upload has failed after both temporary files were created, the bucket
\* was listed afterwards by the other client, and no temporary file is left
FailedUploadLeftNothing ==
    \E p, q \in Procs :
        /\ procs[p].op = "PutObject"
        /\ procs[p].pc = "idle"
        /\ procs[p].err = "failed to move object file"
        /\ procs[q].op = "ListObjects"
        /\ procs[q].status = StatusOK
        /\ TempFiles(disk) = {}
        /\ IsDir(disk, BucketPath(Bucket1))

====
